---- MODULE Spec2Model ----
(***************************************************************************)
(* A model of falcon-autocrud's resource layer (bionic_falcon/resource.py):*)
(* the CollectionResource and SingleResource handlers over one table of a  *)
(* model with a version column (the VersionedAccount fixture), driven one  *)
(* request at a time while other actors commit to the same table.          *)
(***************************************************************************)
EXTENDS Integers, Sequences, FiniteSets, TLC

\* ---------------------------------------------------------------- bounds
MaxId      == 2     \* primary keys are 1..MaxId
MaxVersion == 2     \* version_id of a row never exceeds this (guards cap it)
MaxBatch   == 2     \* longest array body / patch list
MaxOthers  == 1     \* commits of other actors while one request is in flight
MaxLen     == 4     \* longest raw value of an `__in` filter, in characters
MaxPage    == 2     \* largest __offset and __limit

Ids    == 1..MaxId
NULL   == "null"
ABSENT == "absent"              \* a key the JSON body does not carry
STAMP  == "utcnow"              \* the value mark_deleted writes to `deleted`
Owners == {"Don Draper", "Pete Campbell"}

\* ------------------------------------------------------------- the table
\* One row of versioned_accounts; the primary key is the index into `store`.
\* version = 0 stands for "no such row".
Row   == [owner : Owners \cup {NULL}, deleted : {NULL, STAMP}, version : 1..MaxVersion]
NoRow == [owner |-> NULL, deleted |-> NULL, version |-> 0]

live(tbl, i) == tbl[i].version > 0

\* The unique=True constraint on `owner` together with the primary key.
Unique(tbl) ==
    \A i, j \in Ids :
        (i # j /\ live(tbl, i) /\ live(tbl, j) /\ tbl[i].owner # NULL)
            => tbl[i].owner # tbl[j].owner

\* ------------------------------------------------------------ the routes
\* keyed:      the route has an {id} path parameter (apply_arg_filter filters
\*             on it); an unkeyed route filters on nothing
\* precond:    patch_precondition / delete_precondition require owner IS NULL
\* soft:       mark_deleted is configured and get_filter hides marked rows
\* put_insert: allow_put_insert
PlainRoute   == [keyed |-> TRUE,  precond |-> FALSE, soft |-> FALSE, put_insert |-> FALSE]
AccountRoute == [keyed |-> TRUE,  precond |-> TRUE,  soft |-> TRUE,  put_insert |-> FALSE]
GuardedRoute == [keyed |-> TRUE,  precond |-> TRUE,  soft |-> FALSE, put_insert |-> FALSE]
InsertRoute  == [keyed |-> TRUE,  precond |-> FALSE, soft |-> FALSE, put_insert |-> TRUE]
BareRoute    == [keyed |-> FALSE, precond |-> FALSE, soft |-> FALSE, put_insert |-> FALSE]

\* Further attributes of a resource class, where a route configures them.
SortedRoute    == BareRoute @@ [default_sort |-> <<(<<"-", "owner">>)>>]
MisSortedRoute == BareRoute @@ [default_sort |-> <<(<<"owner">>), (<<"bogus">>)>>]

\* A meta producer: a static mapping of the names to functions, or a
\* dynamic function that returns a mapping over the names (or nothing).
Static(names)  == [dynamic |-> FALSE, names |-> names]
Dynamic(names) == [dynamic |-> TRUE,  names |-> names]

\* A route with a meta producer (`meta` of a single resource,
\* `resource_meta` of a collection), with `extra` extra_select columns and
\* with the relations "self" and "others" declared in allowed_included.
WithMeta(route, producer, extra) ==
    route @@ [meta |-> producer, resource_meta |-> producer,
              extra_select |-> extra, allowed_included |-> {"self", "others"}]

\* ------------------------------------------------------------ the state
VARIABLES
    store,      \* the committed table
    pc,         \* where the request stands: idle, located, checked, done
    req,        \* the request in flight (or the last one, when idle)
    loaded,     \* the resource the request's session holds
    resp,       \* the response of the last finished request
    trace       \* ghost: what the request in flight has done so far

vars == <<store, pc, req, loaded, resp, trace>>

NoReq    == [res |-> "", method |-> "", route |-> PlainRoute, id |-> 0,
             body |-> <<>>, params |-> <<>>]
NoLoad   == [id |-> 0, row |-> NoRow]
NoResp   == [status |-> 0, msg |-> "", data |-> <<>>]
\* n1, n2:  what the first and the second lookup found (none, one, many)
\* queries: store queries the request has issued
\* seen:    the owner the located row had in the store when the re-lookup ran
\* others:  commits of other actors since the request began
\* raced:   another actor has committed a change to the located row since the
\*          re-lookup
\* rows:    rows in the table when the request's commit began
\* wrote:   the request changed the table
\* err:     what the store raised at the request's commit
\* log:     the session, hook, commit and result events of the request, in
\*          the order the handler went through them
NoTrace  == [n1 |-> "-", n2 |-> "-", queries |-> 0, seen |-> "-",
             others |-> 0, raced |-> FALSE,
             rows |-> 0, wrote |-> FALSE, err |-> "-", log |-> <<>>]
\* The trace of a request whose handler has entered session_scope.
Opened   == [NoTrace EXCEPT !.log = <<"session">>]

Init ==
    /\ store  = [i \in Ids |-> NoRow]
    /\ pc     = "idle"
    /\ req    = NoReq
    /\ loaded = NoLoad
    /\ resp   = NoResp
    /\ trace  = NoTrace

\* ------------------------------------------------------- results, errors
Response(status, msg, data) == [status |-> status, msg |-> msg, data |-> data]

NotFound      == Response(404, "Not Found", <<>>)
NotAllowed    == Response(405, "Method Not Allowed", <<>>)
InternalError == Response(500, "Internal Server Error", <<>>)
BadFilter     == Response(400, "An attribute provided for filtering is invalid", <<>>)
BadSort       == Response(400, "An attribute provided for sorting is invalid", <<>>)
BadIncluded   == Response(400, "The \"__included\" parameter includes invalid entities", <<>>)
BadPatch      == Response(400, "Invalid patch", <<>>)
ArrayBody     == Response(400, "Array bodies are only allowed with POST requests", <<>>)
Violated      == Response(409, "Resource found but conditions violated", <<>>)
UniqueError   == Response(409, "Unique constraint violated", <<>>)
LinkedError   == Response(409, "Other content links to this", <<>>)

\* What Query.one() makes of a result set.
one(S) == IF S = {} THEN "none" ELSE IF Cardinality(S) = 1 THEN "one" ELSE "many"

\* A JSON object of a body: id and owner, each possibly ABSENT (id: 0).
Obj(id, owner) == [op |-> "", id |-> id, owner |-> owner]

\* --------------------------------------------------------- the serializer
\* The routes' response_fields are id, owner and deleted.
serialize(tbl, i) == [id |-> i, owner |-> tbl[i].owner, deleted |-> tbl[i].deleted]

\* The rows of S in the order the store returns them (by primary key).
RECURSIVE rows_of(_, _, _)
rows_of(tbl, S, i) ==
    IF i > MaxId THEN <<>>
    ELSE (IF i \in S THEN <<serialize(tbl, i)>> ELSE <<>>) \o rows_of(tbl, S, i + 1)

\* ------------------------------------------------------ the query builder
\* apply_arg_filter: the path arguments as equality filters.
apply_arg_filter(route, id, tbl) ==
    {i \in Ids : live(tbl, i) /\ (route.keyed => i = id)}

\* get_filter: the integrator's structural filter (hides marked rows on a
\* soft-delete route, is the identity otherwise).
get_filter(route, tbl, S) ==
    IF route.soft THEN {i \in S : tbl[i].deleted = NULL} ELSE S

\* What getattr(model, key) and inspect(model).attrs[key] find for a name.
AttrKind(name) ==
    CASE name \in {"id", "owner", "deleted"} -> "column"
      [] name = "team"                       -> "relationship"
      [] name = "indirect_name"              -> "property"
      [] OTHER                               -> "missing"

\* The value of a column of row i, as the comparison sees it.
column(tbl, i, name) ==
    CASE name = "owner"   -> tbl[i].owner
      [] name = "deleted" -> tbl[i].deleted
      [] OTHER            -> NULL

\* The characters a raw `__in` value is made of: a value is a sequence of
\* them, and a whole owner name stands for the characters that spell it.
Chars == {"[", "]", ",", "Don Draper"}

\* str.split(sep) on a sequence of characters.
RECURSIVE split(_, _)
split(value, sep) ==
    IF value = <<>> THEN <<(<<>>)>>
    ELSE LET rest == split(Tail(value), sep)
         IN  IF Head(value) = sep THEN <<(<<>>)>> \o rest
             ELSE <<(<<Head(value)>> \o Head(rest))>> \o Tail(rest)

BadList   == "Query __in filter value is an invalid list string"
EmptyList == "Query __in filter provided an empty list string"
BadAttr   == "An attribute provided for filtering is invalid"

\* param_string_to_list: [status |-> 0, list |-> the elements], or the 400
\* raised with its description.
param_string_to_list(value) ==
    IF value = <<>> \/ Head(value) # "[" \/ value[Len(value)] # "]"
    THEN [status |-> 400, msg |-> BadList, list |-> <<>>]
    ELSE IF SubSeq(value, 2, Len(value) - 1) = <<>>
    THEN [status |-> 400, msg |-> EmptyList, list |-> <<>>]
    ELSE [status |-> 0, msg |-> "", list |-> split(SubSeq(value, 2, Len(value) - 1), ",")]

\* The store's string order (the values the model compares, in code-point
\* order).
Collation == <<"", "0", "1", "Don Draper", "Pete Campbell", "false", "utcnow", "x">>
Rank(v) == CHOOSE k \in 1..Len(Collation) : Collation[k] = v

\* column LIKE pattern, for a pattern made of `value` and % wildcards: no
\* stored value is a proper part of another and none differ in case only,
\* so a non-empty value matches the equal stored value and nothing else.
like(stored, value) == stored # NULL /\ (value = "" \/ stored = value)

\* A null test that takes only "1" as a request for the NULL rows.
only_one_is_null(value) == value = "1"

\* The `null` operator's reading of its raw value: TRUE selects IS NULL.
is_null(value) == value # "0"

\* The rows of S one compiled filter clause keeps (value: the list of
\* elements for "in", the raw string otherwise).
clause(tbl, S, key, comparison, value) ==
    CASE comparison = "="    -> {i \in S : column(tbl, i, key) # NULL /\ column(tbl, i, key) = value}
      [] comparison = "null" -> IF is_null(value)
                                THEN {i \in S : column(tbl, i, key) = NULL}
                                ELSE {i \in S : column(tbl, i, key) # NULL}
      [] comparison \in {"startswith", "istartswith", "endswith", "iendswith",
                         "contains", "icontains"}
                             -> {i \in S : like(column(tbl, i, key), value)}
      [] comparison = "lt"   -> {i \in S : column(tbl, i, key) # NULL
                                           /\ Rank(column(tbl, i, key)) < Rank(value)}
      [] comparison = "lte"  -> {i \in S : column(tbl, i, key) # NULL
                                           /\ Rank(column(tbl, i, key)) <= Rank(value)}
      [] comparison = "gt"   -> {i \in S : column(tbl, i, key) # NULL
                                           /\ Rank(column(tbl, i, key)) > Rank(value)}
      [] comparison = "gte"  -> {i \in S : column(tbl, i, key) # NULL
                                           /\ Rank(column(tbl, i, key)) >= Rank(value)}
      [] comparison = "in"   -> {i \in S : \E k \in 1..Len(value) :
                                               value[k] = <<column(tbl, i, key)>>}
      [] OTHER               -> S

Comparisons == {"=", "null", "startswith", "istartswith", "endswith", "iendswith",
                "contains", "icontains", "lt", "lte", "gt", "gte", "in"}

\* filter_by_params: params is the query string, a sequence of
\* [key |-> <<the key split at "__">>, value |-> raw value].  The result is
\* [status |-> 0, set |-> kept rows], or the status and the description of
\* the error raised.
RECURSIVE filter_by_params(_, _, _)
filter_by_params(params, tbl, S) ==
    IF params = <<>> THEN [status |-> 0, msg |-> "", set |-> S]
    ELSE LET parts == Head(params).key
             value == Head(params).value
             key   == parts[1]
             comparison == IF Len(parts) = 1 THEN "=" ELSE parts[2]
             list  == param_string_to_list(value)
         IN  IF Len(parts) > 1 /\ key = "" THEN filter_by_params(Tail(params), tbl, S)
             ELSE IF Len(parts) > 2 THEN [status |-> 400, msg |-> BadAttr, set |-> {}]
             ELSE IF AttrKind(key) = "missing" THEN [status |-> 400, msg |-> BadAttr, set |-> {}]
             ELSE IF AttrKind(key) = "property" THEN [status |-> 500, msg |-> "", set |-> {}]
             ELSE IF AttrKind(key) = "relationship" THEN [status |-> 400, msg |-> BadAttr, set |-> {}]
             ELSE IF comparison \notin Comparisons THEN [status |-> 400, msg |-> BadAttr, set |-> {}]
             ELSE IF comparison = "in" /\ list.status # 0
             THEN [status |-> 400, msg |-> list.msg, set |-> {}]
             ELSE filter_by_params(Tail(params), tbl,
                      clause(tbl, S, key, comparison,
                             IF comparison = "in" THEN list.list ELSE value))

\* A route whose hooks are the defaults: the query comes back as it went in.
default_patch_precondition(route, body, tbl, S) == S
default_delete_precondition(route, tbl, S) == S

\* patch_precondition of the fixture: an owner may only be set on a row
\* that has none.
patch_precondition(route, body, tbl, S) ==
    IF route.precond /\ body.owner \notin {ABSENT, NULL}
    THEN {i \in S : tbl[i].owner = NULL}
    ELSE S

\* delete_precondition of the fixture: only rows without an owner.
delete_precondition(route, tbl, S) ==
    IF route.precond THEN {i \in S : tbl[i].owner = NULL} ELSE S

\* ------------------------------------------------- the session and store
\* A flush works on the transaction's copy of the table and yields
\* [err, tbl]: err is "none", "unique" (IntegrityError) or "stale"
\* (StaleDataError); on an error tbl is what the transaction had written.

owner_taken(tbl, i, owner) ==
    owner # NULL /\ \E j \in Ids \ {i} : live(tbl, j) /\ tbl[j].owner = owner

\* INSERT of one pending object.
flush_insert(tbl, obj) ==
    IF live(tbl, obj.id) \/ owner_taken(tbl, obj.id, obj.owner)
    THEN [err |-> "unique", tbl |-> tbl]
    ELSE [err |-> "none",
          tbl |-> [tbl EXCEPT ![obj.id] = [owner   |-> obj.owner,
                                           deleted |-> NULL,
                                           version |-> 1]]]

\* The pending objects of a session, inserted in the order they were added.
RECURSIVE flush_inserts(_, _)
flush_inserts(tbl, objs) ==
    IF objs = <<>> THEN [err |-> "none", tbl |-> tbl]
    ELSE LET first == flush_insert(tbl, Head(objs))
         IN  IF first.err # "none" THEN first
             ELSE flush_inserts(first.tbl, Tail(objs))

\* UPDATE of the loaded resource ld to the attribute values in `now`:
\* nothing is sent when no attribute has a net change; otherwise
\* UPDATE .. SET <changed>, version_id = v + 1 WHERE id = ? AND version_id = v
\* must match one row.
flush_update(tbl, ld, now, dirty) ==
    IF ~dirty
    THEN [err |-> "none", tbl |-> tbl]
    ELSE IF tbl[ld.id].version # ld.row.version
    THEN [err |-> "stale", tbl |-> tbl]
    ELSE IF now.owner # ld.row.owner /\ owner_taken(tbl, ld.id, now.owner)
    THEN [err |-> "unique", tbl |-> tbl]
    ELSE [err |-> "none",
          tbl |-> [tbl EXCEPT ![ld.id] =
                      [owner   |-> IF now.owner # ld.row.owner THEN now.owner ELSE @.owner,
                       deleted |-> IF now.deleted # ld.row.deleted \/ now.deleted = STAMP
                                   THEN now.deleted ELSE @.deleted,
                       version |-> ld.row.version + 1]]]

\* Query.delete(): DELETE .. WHERE <the query's filters>, whatever matches.
bulk_delete(tbl, S) == [i \in Ids |-> IF i \in S THEN NoRow ELSE tbl[i]]

\* A session that keeps what the failed transaction had written.
keep_written(committed, written) == written

\* db_session.rollback(): the transaction's writes are discarded.
rollback(committed, written) == committed

\* A model object that keeps the body's gaps as they are.
raw_attributes(obj) == [id |-> obj.id, owner |-> obj.owner]

\* A model object built from a body object: columns the body does not give
\* are None.
attributes(obj) ==
    [id |-> obj.id, owner |-> IF obj.owner = ABSENT THEN NULL ELSE obj.owner]

\* setattr for each body attribute on the loaded resource.
setattrs(row, obj) ==
    [owner   |-> IF obj.owner = ABSENT THEN row.owner ELSE obj.owner,
     deleted |-> row.deleted]

\* -------------------------------------------------------- the field codec
\* A value, stored or on the wire: its Python type, the format of a string,
\* the instant or number v it denotes, and frac: the microseconds of a
\* datetime or time, of a string that spells them, and for a number whether
\* it is not a binary fraction (a float: whether it was rounded).
\* items: the objects of a dict (one) or a list.
Value(type, form, v, frac) ==
    [type |-> type, form |-> form, v |-> v, frac |-> frac, items |-> <<>>]
None == Value("None", "", 0, 0)

\* _serialize_value of a column whose datetime mode is "default", "naive"
\* (naive_datetimes) or "ms" (datetime_in_ms).
serialize_value(mode, value) ==
    CASE value.type = "uuid"     -> Value("str", "hex", value.v, 0)
      [] value.type = "datetime" ->
            CASE mode = "naive" -> Value("str", "%Y-%m-%dT%H:%M:%S", value.v, 0)
              [] mode = "ms"    -> Value("int", "", value.v, 0)
              [] OTHER          -> Value("str", "%Y-%m-%dT%H:%M:%SZ", value.v, 0)
      [] value.type = "date"     -> Value("str", "%Y-%m-%d", value.v, 0)
      [] value.type = "time"     -> Value("str", "isoformat", value.v, value.frac)
      [] value.type = "Decimal"  -> Value("float", "", value.v, value.frac)
      [] OTHER                   -> value

\* [status, value]: the decoded value, or the 500 of an exception nothing
\* catches.
Decoded(value) == [status |-> 0, value |-> value]
Raised         == [status |-> 500, value |-> None]

\* datetime.strptime(value, form): the instant a string of that form spells.
strptime(value, form, type) ==
    IF value.type = "str" /\ value.form = form /\ value.frac = 0
    THEN Decoded(Value(type, "", value.v, 0))
    ELSE Raised

\* hour, minute, second = value.split(':'); time(int(hour), int(minute),
\* int(second)): int() refuses a seconds field with a fraction.
time_of(value) ==
    IF value.type = "str" /\ value.form = "isoformat" /\ value.frac = 0
    THEN Decoded(Value("time", "", value.v, 0))
    ELSE Raised

\* parse_body_dict's decoding of a body value by the type of its column.
decode(column_type, mode, value) ==
    CASE column_type = "DateTime" ->
            IF value = None THEN Decoded(None)
            ELSE IF mode = "ms"
            THEN IF value.type \in {"int", "float"}
                 THEN Decoded(Value("datetime", "", value.v, 0)) ELSE Raised
            ELSE IF mode = "naive" THEN strptime(value, "%Y-%m-%dT%H:%M:%S", "datetime")
            ELSE strptime(value, "%Y-%m-%dT%H:%M:%SZ", "datetime")
      [] column_type = "Date" ->
            IF value = None THEN Decoded(None) ELSE strptime(value, "%Y-%m-%d", "date")
      [] column_type = "Time" ->
            IF value = None THEN Decoded(None) ELSE time_of(value)
      [] OTHER -> Decoded(value)

\* ------------------------------------------------------- the body parser
\* The models of the fixtures: what getattr(model, key) and inspect(model)
\* find for a key.
KeyKind(model, key) ==
    CASE model = "Team" /\ key \in {"id", "name"}                    -> "column"
      [] model = "Team" /\ key = "characters"                        -> "relationship"
      [] model = "Character" /\ key \in {"id", "name", "team_id"}     -> "column"
      [] model = "Character" /\ key = "team"                         -> "relationship"
      [] model = "Character" /\ key = "indirect_name"                -> "property"
      [] model = "Employee" /\ key \in {"id", "name", "joined", "start_time"} -> "column"
      [] model = "Employee" /\ key = "company"                       -> "relationship"
      [] model = "Company" /\ key \in {"id", "name"}                  -> "column"
      [] model = "Company" /\ key = "employees"                      -> "relationship"
      [] OTHER                                                       -> "missing"

\* mapper.columns[key].type
ColumnType(model, key) ==
    CASE key = "joined"     -> "DateTime"
      [] key = "start_time" -> "Time"
      [] key \in {"id", "team_id"} -> "Integer"
      [] OTHER              -> "String"

\* mapper.relationships[key]: the related model, and whether it is to-many.
Entity(model, key) ==
    CASE key = "characters" -> "Character"
      [] key = "team"       -> "Team"
      [] key = "company"    -> "Company"
      [] OTHER              -> "Employee"
uselist(model, key) == key \in {"characters", "employees"}

\* A JSON object is the sequence of its entries; a nested object or a list
\* of objects is a value that holds them in items.
Entry(key, value) == [key |-> key, value |-> value]
Dict(body)    == [Value("dict", "", 0, 0) EXCEPT !.items = <<body>>]
List(bodies)  == [Value("list", "", 0, 0) EXCEPT !.items = bodies]
Str(v)        == Value("str", "", v, 0)
Keys(entries) == {entries[k].key : k \in 1..Len(entries)}
Get(entries, key) == (CHOOSE k \in 1..Len(entries) : entries[k].key = key)

Parsed(status, attrs, linked) ==
    [status |-> status, attributes |-> attrs, linked |-> linked]

\* A parser that keeps a relationship's objects among the flat attributes.
flattened_entry(rest, key, many, objects) ==
    [rest EXCEPT !.attributes = <<Entry(key, List(objects))>> \o @]

\* linked_attributes[key] = the parsed objects (a list for a to-many
\* relationship, the one object otherwise).
linked_entry(rest, key, many, objects) ==
    [rest EXCEPT !.linked =
        <<Entry(key, [many |-> many, objects |-> objects])>> \o @]

\* parse_body_dict: (attributes, linked_attributes) of one body object, the
\* entries in the order of the body; an exception ends the parse.
RECURSIVE parse_body_dict(_, _, _)
parse_body_dict(model, allow_recursion, body_data) ==
    IF body_data = <<>> THEN Parsed(0, <<>>, <<>>)
    ELSE LET key    == Head(body_data).key
             value  == Head(body_data).value
             rest   == parse_body_dict(model, allow_recursion, Tail(body_data))
             decoded == decode(ColumnType(model, key), "default", value)
             nested == [k \in 1..Len(value.items) |->
                           parse_body_dict(Entity(model, key), FALSE, value.items[k])]
         IN  CASE KeyKind(model, key) = "property" ->
                    IF rest.status # 0 THEN rest
                    ELSE [rest EXCEPT !.attributes = <<Entry(key, value)>> \o @]
               [] KeyKind(model, key) = "column" ->
                    IF decoded.status # 0 THEN Parsed(500, <<>>, <<>>)
                    ELSE IF rest.status # 0 THEN rest
                    ELSE [rest EXCEPT !.attributes = <<Entry(key, decoded.value)>> \o @]
               [] KeyKind(model, key) = "relationship" /\ allow_recursion ->
                    IF \E k \in 1..Len(nested) : nested[k].status # 0
                    THEN Parsed(500, <<>>, <<>>)
                    ELSE IF rest.status # 0 THEN rest
                    ELSE linked_entry(rest, key, uselist(model, key),
                                      [k \in 1..Len(nested) |-> nested[k].attributes])
               [] OTHER -> rest

\* dict.setdefault: a key the dict already has keeps its value.
setdefault(entries, key, value) ==
    IF key \in Keys(entries) THEN entries ELSE Append(entries, Entry(key, value))

\* attributes[key] = val
set_item(entries, key, value) ==
    IF key \in Keys(entries)
    THEN [k \in 1..Len(entries) |->
             IF entries[k].key = key THEN Entry(key, value) ELSE entries[k]]
    ELSE Append(entries, Entry(key, value))

\* parse_path_dict (no attr_map): the path arguments as attributes; one that
\* names no column is a programming error.
parse_path_dict(model, path_data) ==
    IF \E k \in 1..Len(path_data) : KeyKind(model, path_data[k].key) # "column"
    THEN [status |-> 500, attributes |-> <<>>]
    ELSE [status |-> 0, attributes |-> path_data]

\* The loop of deserialize over path_attributes.items().
RECURSIVE merge_path(_, _)
merge_path(entries, path_attributes) ==
    IF path_attributes = <<>> THEN entries
    ELSE merge_path(set_item(entries, Head(path_attributes).key, Head(path_attributes).value),
                    Tail(path_attributes))

\* deserialize, and the caller's `attributes, linked_attributes = ...`:
\* [status, attributes, linked], a list each with one element per parsed
\* object; list(zip(*[])) of an empty array body is [], which the caller
\* cannot unpack.
deserialize(model, path_data, body_data, allow_recursion) ==
    LET to_parse == IF body_data.type # "list" THEN <<body_data.items[1]>>
                    ELSE body_data.items
        deserialized == [k \in 1..Len(to_parse) |->
                            parse_body_dict(model, allow_recursion, to_parse[k])]
        path == parse_path_dict(model, path_data)
    IN  IF \E k \in 1..Len(to_parse) : deserialized[k].status # 0
        THEN Parsed(500, <<>>, <<>>)
        ELSE IF path.status # 0 THEN Parsed(500, <<>>, <<>>)
        ELSE IF to_parse = <<>> THEN Parsed(500, <<>>, <<>>)
        ELSE Parsed(0,
                    [k \in 1..Len(to_parse) |->
                        merge_path(deserialized[k].attributes, path.attributes)],
                    [k \in 1..Len(to_parse) |-> deserialized[k].linked])

\* ---------------------------------------------------------------- inputs
Param(parts, value) == [key |-> parts, value |-> value]

Request(res, method, route, id, body, params) ==
    [res |-> res, method |-> method, route |-> route, id |-> id,
     body |-> body, params |-> params]

LiveIds(tbl) == {i \in Ids : live(tbl, i)}

InBounds(tbl) == \A i \in Ids : tbl[i].version <= MaxVersion

\* The request ends with response r.
Finish(r) ==
    /\ pc'   = "done"
    /\ resp' = r

\* getattr(self, 'methods', <the defaults of the resource class>).
methods(r) ==
    IF "methods" \in DOMAIN r.route THEN r.route.methods
    ELSE IF r.res = "collection" THEN {"GET", "POST", "PATCH"}
    ELSE {"GET", "PUT", "PATCH", "DELETE"}

\* A handler that serves whatever method it is routed.
any_method(r) == TRUE

\* The check every handler begins with.
allowed(r) == r.method \in methods(r)

\* raise HTTPMethodNotAllowed: the handler's first statement ends the
\* request.
reject(r) ==
    /\ pc = "idle"
    /\ req'    = r
    /\ trace'  = NoTrace
    /\ loaded' = NoLoad
    /\ Finish(NotAllowed)
    /\ UNCHANGED store

\* req.context['result'] of a handler that finished request r with
\* response rsp: empty after a DELETE and after a PATCH of the collection,
\* the keys of the response besides the status line otherwise.
result_of(r, rsp) ==
    IF r.method = "DELETE" \/ (r.method = "PATCH" /\ r.res = "collection")
    THEN [k \in {} |-> <<>>]
    ELSE [k \in DOMAIN rsp \ {"status", "msg"} |-> rsp[k]]

\* The body Middleware.process_response writes for a result: whether it is
\* the whole mapping (and then with which keys), and the data in it.
response_body(result) ==
    IF "data" \in DOMAIN result /\ "meta" \notin DOMAIN result
    THEN [whole |-> FALSE, keys |-> {}, data |-> result.data]
    ELSE [whole |-> TRUE, keys |-> DOMAIN result,
          data |-> IF "data" \in DOMAIN result THEN result.data ELSE <<>>]

\* The response is handed to the boundary layer, which writes
\* response_body(result_of(req, resp)), and the session is closed.
process_response ==
    /\ pc = "done"
    /\ pc'     = "idle"
    /\ req'    = NoReq
    /\ loaded' = NoLoad
    /\ resp'   = NoResp
    /\ trace'  = NoTrace
    /\ UNCHANGED store

\* ----------------------------------------------- CollectionResource.on_get
\* The filters are compiled before the query runs: a rejected filter key
\* ends the request with no query issued.
\* req.params: whether a reserved parameter is given, and its value
\* (get_param_as_list for __sort and __included, get_param_as_int for
\* __offset and __limit).
has_param(params, name) == \E k \in 1..Len(params) : params[k].key = <<"", name>>
get_param(params, name) ==
    params[CHOOSE k \in 1..Len(params) : params[k].key = <<"", name>>].value

\* getattr(self, name, default) on the resource class of a route.
config(route, name, default) == IF name \in DOMAIN route THEN route[name] ELSE default

\* A sort field is a sequence of characters (whole names standing for the
\* characters that spell them); a leading "-" asks for descending order.
reverse(field) == Head(field) = "-"
field_name(field) ==
    LET rest == IF reverse(field) THEN Tail(field) ELSE field
    IN  IF Len(rest) = 1 THEN rest[1] ELSE ""

\* The ORDER BY list of a sort: [status |-> 0, fields |-> ..], or the
\* status of the error raised for a field that is no column.
RECURSIVE order_fields(_, _)
order_fields(sort, using_default_sort) ==
    IF sort = <<>> THEN [status |-> 0, fields |-> <<>>]
    ELSE LET name == field_name(Head(sort))
             rest == order_fields(Tail(sort), using_default_sort)
         IN  IF AttrKind(name) = "property" THEN [status |-> 500, fields |-> <<>>]
             ELSE IF AttrKind(name) # "column"
             THEN [status |-> IF using_default_sort THEN 500 ELSE 400, fields |-> <<>>]
             ELSE IF rest.status # 0 THEN rest
             ELSE [status |-> 0,
                   fields |-> <<[name |-> name, desc |-> reverse(Head(sort))]>>
                              \o rest.fields]

\* A descending order that ascends.
asc(a, b) == a < b

\* attr.desc(): key a comes before key b.
desc(a, b) == a > b

\* The store's order of one column: NULL sorts lowest.
sort_key(tbl, i, name) ==
    IF name = "id" THEN i
    ELSE IF column(tbl, i, name) = NULL THEN 0
    ELSE Rank(column(tbl, i, name))

\* Row i comes before row j under ORDER BY fields (rows the fields do not
\* tell apart come in primary-key order).
RECURSIVE precedes(_, _, _, _)
precedes(tbl, i, j, fields) ==
    IF fields = <<>> THEN i < j
    ELSE LET a == sort_key(tbl, i, Head(fields).name)
             b == sort_key(tbl, j, Head(fields).name)
         IN  IF a = b THEN precedes(tbl, i, j, Tail(fields))
             ELSE IF Head(fields).desc THEN desc(a, b) ELSE a < b

\* The rows of S in the order of the fields.
order_by(tbl, S, fields) ==
    [k \in 1..Cardinality(S) |->
        CHOOSE i \in S : Cardinality({j \in S : precedes(tbl, j, i, fields)}) = k - 1]

\* count = None.
NoCount == -1

\* if req.get_param_as_int(name): the parameter is given and is not 0.
truthy(params, name) == has_param(params, name) /\ get_param(params, name) # 0

\* OFFSET and LIMIT on an ordered result.
slice(ids, params) ==
    LET from == IF truthy(params, "offset") THEN get_param(params, "offset") ELSE 0
        upto == IF truthy(params, "limit")
                THEN from + get_param(params, "limit") ELSE Len(ids)
    IN  SubSeq(ids, from + 1, IF upto < Len(ids) THEN upto ELSE Len(ids))

\* The meta block of a paginated result.
page_meta(params, count) ==
    LET total  == [total |-> count]
        offset == IF has_param(params, "offset")
                  THEN total @@ [offset |-> get_param(params, "offset")] ELSE total
    IN  IF has_param(params, "limit")
        THEN offset @@ [limit |-> get_param(params, "limit")] ELSE offset

\* The extra_select columns of row i (a count over the table).
extras(route, tbl, i) ==
    IF config(route, "extra_select", 0) > 0 THEN <<Cardinality(LiveIds(tbl))>> ELSE <<>>

\* What a meta function called `name` returns for its arguments.
Call(name, args) == [fn |-> name, args |-> args]

\* The meta_dict of a dynamic producer: nothing when the request carries
\* __without_size, a mapping over the producer's names otherwise.
meta_dict(producer, params, args) ==
    [none |-> has_param(params, "without_size"),
     dict |-> [n \in producer.names |-> Call(n, args)]]

\* A test for a mapping with entries instead of a test for None.
returned_entries(m) == ~m.none /\ DOMAIN m.dict # {}

\* meta_dict is not None.
returned(m) == ~m.none

\* add_meta of a collection GET: the item with its meta block, if any.
add_meta(route, params, tbl, i, output) ==
    LET resource_meta == config(route, "resource_meta", Static({}))
        args == <<i>> \o extras(route, tbl, i)
        m    == meta_dict(resource_meta, params, args)
    IN  IF resource_meta.dynamic
        THEN IF returned(m) THEN output @@ [meta |-> m.dict] ELSE output
        ELSE IF resource_meta.names # {}
        THEN output @@ [meta |-> [n \in resource_meta.names |-> Call(n, args)]]
        ELSE output

\* The meta block of a single GET, added to its result.
get_meta(route, params, tbl, i, result) ==
    LET resource_meta == config(route, "meta", Static({}))
        args == <<i>> \o extras(route, tbl, i)
        m    == meta_dict(resource_meta, params, args)
    IN  IF resource_meta.dynamic
        THEN IF returned(m) THEN result @@ [meta |-> m.dict] ELSE result
        ELSE IF resource_meta.names # {}
        THEN result @@ [meta |-> [n \in resource_meta.names |-> Call(n, args)]]
        ELSE result

\* allowed_included[name]['link'](resource): the related rows of row i, in
\* primary-key order ("self": the row itself, "others": the other rows).
link(name, tbl, i) ==
    LET S == IF name = "self" THEN {i} ELSE LiveIds(tbl) \ {i}
    IN  order_by(tbl, S, <<>>)

\* The related rows of row i for the names of __included, in the order the
\* loops visit them.
RECURSIVE related(_, _, _)
related(tbl, i, names) ==
    IF names = <<>> THEN <<>>
    ELSE LET rows == link(Head(names), tbl, i)
         IN  [k \in 1..Len(rows) |-> [type |-> Head(names), id |-> rows[k]]]
             \o related(tbl, i, Tail(names))

\* result['included'] for row i: the id is read from `resource`, row i.
included(tbl, i, names) ==
    LET rel == related(tbl, i, names)
    IN  [k \in 1..Len(rel) |->
            [id         |-> i,
             type       |-> rel[k].type,
             attributes |-> serialize(tbl, rel[k].id)]]

\* ------------------------------------------ the response field selection
\* A route's response_fields: a static list of names, or a function of the
\* request (the one of the fixtures splits the X-Fields header).
Fields(names) == [callable |-> FALSE, names |-> names]
FromHeader    == [callable |-> TRUE, names |-> <<>>]

\* inspect(model).attrs.keys(): the columns and the relationships.
Attrs == <<"id", "owner", "deleted", "team">>

\* The request with an X-Fields header.
WithHeader(r, names) == r @@ [x_fields |-> names]

\* _get_response_fields: [status, names]; names is Attrs when the route
\* configures nothing (serialize's default), and the function of the
\* fixtures raises on a request without the header.
response_fields(r) ==
    LET selection == config(r.route, "response_fields", Fields(Attrs))
    IN  IF ~selection.callable THEN [status |-> 0, names |-> selection.names]
        ELSE IF "x_fields" \in DOMAIN r THEN [status |-> 0, names |-> r.x_fields]
        ELSE [status |-> 500, names |-> <<>>]

Names(fields) == {fields[k] : k \in 1..Len(fields)}

\* attrs[attr] of serialize's comprehension: a KeyError for a name that
\* inspect(model).attrs does not hold (a plain property, an unknown name).
KeyError(fields) == \E n \in Names(fields) : AttrKind(n) \in {"property", "missing"}

\* The names serialize emits: the selected ColumnProperty attributes.
selected_columns(fields) ==
    IF KeyError(fields) THEN {} ELSE {n \in Names(fields) : AttrKind(n) = "column"}

\* serialize under a selection: the record's document cut to the selected
\* columns (the meta block is added after serialize and stays).
serialize_fields(doc, fields) ==
    [n \in DOMAIN doc \cap (selected_columns(fields) \cup {"meta"}) |-> doc[n]]

\* The response of a handler once its records went through serialize with
\* the route's selection; an error response serializes nothing.
with_fields(r, rsp) ==
    LET f == response_fields(r)
    IN  IF rsp.status \notin {200, 201} \/ rsp.data = <<>>
           \/ "response_fields" \notin DOMAIN r.route
        THEN rsp
        ELSE IF f.status # 0 \/ KeyError(f.names) THEN InternalError
        ELSE [rsp EXCEPT !.data = [k \in 1..Len(rsp.data) |->
                                      serialize_fields(rsp.data[k], f.names)]]

\* --------------------------------------------------- SingleResource.on_get
single_get_with(tbl, route, id, params) ==
    LET S == get_filter(route, tbl, apply_arg_filter(route, id, tbl))
        i == CHOOSE i \in S : TRUE
        names  == get_param(params, "included")
        result == IF has_param(params, "included")
                  THEN Response(200, "", <<serialize(tbl, i)>>)
                           @@ [included |-> included(tbl, i, names)]
                  ELSE Response(200, "", <<serialize(tbl, i)>>)
    IN  CASE one(S) = "none" -> NotFound
          [] one(S) = "many" -> InternalError
          [] OTHER ->
               IF /\ has_param(params, "included")
                  /\ \E k \in 1..Len(names) :
                        names[k] \notin config(route, "allowed_included", {})
               THEN BadIncluded
               ELSE get_meta(route, params, tbl, i, result)

single_get(tbl, route, id) == single_get_with(tbl, route, id, <<>>)

\* r: the request, with the headers it carries.
get(r) ==
    IF ~allowed(r) THEN reject(r)
    ELSE /\ pc = "idle"
         /\ req'    = r
         /\ trace'  = [Opened EXCEPT !.queries = 1]
         /\ loaded' = NoLoad
         /\ Finish(with_fields(r, single_get_with(store, r.route, r.id, r.params)))
         /\ UNCHANGED store

on_get(route, id, params) == get(Request("single", "GET", route, id, <<>>, params))

collection_get(tbl, route, params) ==
    LET f == filter_by_params(params, tbl,
                 get_filter(route, tbl, apply_arg_filter(route, 0, tbl)))
        o == IF has_param(params, "sort")
             THEN order_fields(get_param(params, "sort"), FALSE)
             ELSE order_fields(config(route, "default_sort", <<>>), TRUE)
        ids   == slice(order_by(tbl, f.set, o.fields), params)
        count == IF truthy(params, "offset") \/ truthy(params, "limit")
                 THEN Cardinality(f.set) ELSE NoCount
        data  == [k \in 1..Len(ids) |->
                     add_meta(route, params, tbl, ids[k], serialize(tbl, ids[k]))]
    IN  IF f.status = 400 THEN Response(400, f.msg, <<>>)
        ELSE IF f.status # 0 THEN InternalError
        ELSE IF o.status = 400 THEN BadSort
        ELSE IF o.status # 0 THEN InternalError
        ELSE IF has_param(params, "offset") \/ has_param(params, "limit")
        THEN Response(200, "", data) @@ [meta |-> page_meta(params, count)]
        ELSE Response(200, "", data)

get_collection(r) ==
    IF ~allowed(r) THEN reject(r)
    ELSE /\ pc = "idle"
         /\ req'    = r
         /\ trace'  = [Opened EXCEPT
                          !.queries = IF collection_get(store, r.route, r.params).status # 200
                                      THEN 0
                                      ELSE IF truthy(r.params, "offset") \/ truthy(r.params, "limit")
                                      THEN 2 ELSE 1]
         /\ loaded' = NoLoad
         /\ Finish(with_fields(r, collection_get(store, r.route, r.params)))
         /\ UNCHANGED store

on_get_collection(route, params) ==
    get_collection(Request("collection", "GET", route, 0, <<>>, params))

\* A collection GET with sorting and pagination parameters.
on_get_page(route, sort, page) ==
    /\ Len(sort) <= 1
    /\ on_get_collection(route, sort \o page)

\* A collection GET whose query string is one `__in` filter.
on_get_in(route, name, value) ==
    /\ Len(value) <= MaxLen
    /\ on_get_collection(route, <<Param(<<name, "in">>, value)>>)

\* A route that creates subresources whatever it configures.
always_subresources(route) == TRUE

\* getattr(self, 'allow_subresources', False)
allow_subresources(route) == config(route, "allow_subresources", FALSE)

\* The model objects on_post builds before the commit, each with its depth
\* below the top level: self.model(**attribute_dict) for every parsed object,
\* and resource_class(**attributes) for every object of its linked
\* attributes.
RECURSIVE subresources(_, _)
subresources(model, linked) ==
    IF linked = <<>> THEN <<>>
    ELSE LET key     == Head(linked).key
             objects == Head(linked).value.objects
         IN  [k \in 1..Len(objects) |->
                 [model |-> Entity(model, key), depth |-> 1, attributes |-> objects[k]]]
             \o subresources(model, Tail(linked))

RECURSIVE resources_of(_, _, _)
resources_of(model, d, k) ==
    IF k > Len(d.attributes) THEN <<>>
    ELSE <<[model |-> model, depth |-> 0, attributes |-> d.attributes[k]]>>
         \o subresources(model, d.linked[k])
         \o resources_of(model, d, k + 1)

\* ---------------------------------------------- CollectionResource.on_post
\* Each yields [resp, tbl, err]: the response, the table after the commit
\* or the rollback, and the store's error ("none" when it raised nothing).
Outcome(r, tbl, err) == [resp |-> r, tbl |-> tbl, err |-> err]

RECURSIVE map_attributes(_)
map_attributes(body) ==
    IF body = <<>> THEN <<>>
    ELSE <<attributes(Head(body))>> \o map_attributes(Tail(body))

RECURSIVE serialize_all(_, _)
serialize_all(tbl, objs) ==
    IF objs = <<>> THEN <<>>
    ELSE <<serialize(tbl, Head(objs).id)>> \o serialize_all(tbl, Tail(objs))

\* body: the objects of the request body (one for an object body).  All are
\* added to the session, then committed together.
post_commit(tbl, body) ==
    LET objs  == map_attributes(body)
        flush == flush_inserts(tbl, objs)
    IN  IF flush.err # "none"
        THEN Outcome(UniqueError, rollback(tbl, flush.tbl), flush.err)
        ELSE Outcome(Response(201, "", serialize_all(flush.tbl, objs)), flush.tbl, "none")

\* getattr(self, name, None): the hook, when the route defines it.
hook(r, name) == IF name \in config(r.route, "hooks", {}) THEN <<name>> ELSE <<>>

\* The hook a handler calls between resolving the record and the commit;
\* on_put calls none.
before_hook(r) ==
    CASE r.method = "POST"   -> hook(r, "before_post")
      [] r.method = "PATCH" /\ r.res = "single" -> hook(r, "before_patch")
      [] r.method = "DELETE" -> hook(r, "before_delete")
      [] OTHER               -> <<>>

\* The hook a handler calls after it has set the result.
after_hook(r) ==
    CASE r.method = "POST"   -> hook(r, "after_post")
      [] r.method = "PUT"    -> hook(r, "after_put")
      [] r.method = "PATCH"  -> hook(r, "after_patch")
      [] r.method = "DELETE" -> hook(r, "after_delete")
      [] OTHER               -> <<>>

\* The events of a handler from its before hook on, for outcome `out`: a
\* request that raised before the commit (err "-") got to none of them, and
\* one that raised at the commit or while serializing sets no result.
events(r, out) ==
    IF out.err = "-" THEN <<>>
    ELSE before_hook(r) \o <<"commit">> \o
         (IF out.resp.status \in {200, 201} THEN <<"result">> \o after_hook(r) ELSE <<>>)

finish(r, before, out) ==
    /\ store' = out.tbl
    /\ trace' = [before EXCEPT !.rows  = Cardinality(LiveIds(store)),
                               !.err   = out.err,
                               !.wrote = (out.tbl # store),
                               !.log   = @ \o events(r, out)]
    /\ Finish(out.resp)

\* The outcome of a handler with its response serialized under the route's
\* selection.
shown(r, out) == [out EXCEPT !.resp = with_fields(r, @)]

post(r) ==
    IF ~allowed(r) THEN reject(r)
    ELSE /\ pc = "idle"
         /\ req'    = r
         /\ loaded' = NoLoad
         /\ finish(r, Opened, shown(r, post_commit(store, r.body)))

on_post(body) == post(Request("collection", "POST", BareRoute, 0, body, <<>>))

\* --------------------------------------------- CollectionResource.on_patch
\* patches: the list of the body, each [op, id, owner].  Only "add" is a
\* valid op; a patch that is not ends the request before anything is flushed,
\* and session_scope rolls the session back.
RECURSIVE collect_patches(_, _)
collect_patches(patches, pending) ==
    IF patches = <<>> THEN [status |-> 0, pending |-> pending]
    ELSE IF Head(patches).op # "add" THEN [status |-> 400, pending |-> pending]
    ELSE collect_patches(Tail(patches), Append(pending, attributes(Head(patches))))

\* session_scope on leaving the with block: what the session holds is
\* committed on a normal exit and rolled back when the block raised.
session_scope(committed, written, raised) ==
    IF raised THEN committed ELSE written

collection_patch_commit(tbl, patches) ==
    LET c     == collect_patches(patches, <<>>)
        flush == flush_inserts(tbl, c.pending)
    IN  IF c.status # 0
        THEN Outcome(BadPatch, session_scope(tbl, flush.tbl, TRUE), "-")
        ELSE IF flush.err # "none"
        THEN Outcome(UniqueError, rollback(tbl, flush.tbl), flush.err)
        ELSE Outcome(Response(200, "", <<>>), flush.tbl, "none")

patch_collection(r) ==
    IF ~allowed(r) THEN reject(r)
    ELSE /\ pc = "idle"
         /\ req'    = r
         /\ loaded' = NoLoad
         /\ finish(r, Opened, collection_patch_commit(store, r.body))

on_patch_collection(patches) ==
    patch_collection(Request("collection", "PATCH", BareRoute, 0, patches, <<>>))

\* ------------------------------------- SingleResource: locating the record
\* The first lookup of on_put, on_patch and on_delete: the path filters
\* alone.  The resource it loads stays in the session as loaded here.
pick(S) == CHOOSE i \in S : TRUE

load(tbl, i) == [id |-> i, row |-> tbl[i]]

\* A first lookup that inserts whenever nothing matches.
always_insert(method, route, found) ==
    CASE found = "none" -> IF method = "PUT" THEN "insert" ELSE "not found"
      [] found = "many" -> "error"
      [] OTHER          -> "found"

\* What the handler does with the first lookup's result.
located(method, route, found) ==
    CASE found = "none" -> IF method = "PUT" /\ route.put_insert THEN "insert"
                           ELSE "not found"
      [] found = "many" -> "error"
      [] OTHER          -> "found"

locate_record(r) ==
    IF ~allowed(r) THEN reject(r)
    ELSE /\ pc = "idle"
         /\ req' = r
         /\ LET S == apply_arg_filter(r.route, r.id, store)
                l == located(r.method, r.route, one(S))
            IN  /\ trace' = [Opened EXCEPT !.n1 = one(S), !.queries = 1]
                /\ loaded' = IF l = "found" THEN load(store, pick(S)) ELSE NoLoad
                /\ CASE l = "not found" -> Finish(NotFound)
                     [] l = "error"     -> Finish(InternalError)
                     [] OTHER           -> pc' = "located" /\ resp' = NoResp
         /\ UNCHANGED store

locate(method, route, id, body, params) ==
    locate_record(Request("single", method, route, id, body, params))

\* The second lookup of on_patch and on_delete: the query-string filters and
\* the precondition hook on top of the path filters, against the store as it
\* is now.  [status, set]: status 0 and the matching rows, or the error.
precondition(method, route, body, tbl, S) ==
    IF method = "PATCH" THEN patch_precondition(route, body[1], tbl, S)
    ELSE delete_precondition(route, tbl, S)

\* A re-lookup that leaves the query string out.
unfiltered_conditions(r, tbl) ==
    [status |-> 0, msg |-> "",
     set |-> precondition(r.method, r.route, r.body, tbl,
                          apply_arg_filter(r.route, r.id, tbl))]

conditions(r, tbl) ==
    LET f == filter_by_params(r.params, tbl, apply_arg_filter(r.route, r.id, tbl))
    IN  IF f.status # 0 THEN f
        ELSE [status |-> 0, msg |-> "",
              set |-> precondition(r.method, r.route, r.body, tbl, f.set)]

\* A re-lookup that reports a record its conditions exclude as missing.
missing_when_excluded(found) ==
    CASE found = "none" -> NotFound
      [] found = "many" -> InternalError
      [] OTHER          -> NoResp

\* A re-lookup that takes the first of several matches.
first_of_many(found) == IF found = "none" THEN Violated ELSE NoResp

\* What the re-lookup ends the request with, or NoResp to go on.
\* on_delete turns MultipleResultsFound into a 500 itself; on_patch lets it
\* escape, which the framework answers with a 500 as well.
requery_result(found) ==
    CASE found = "none" -> Violated
      [] found = "many" -> InternalError
      [] OTHER          -> NoResp

requery ==
    /\ pc = "located"
    /\ LET c == conditions(req, store)
           r == IF c.status = 400 THEN Response(400, c.msg, <<>>)
                ELSE IF c.status # 0 THEN InternalError
                ELSE requery_result(one(c.set))
       IN  /\ trace' = IF c.status # 0 THEN trace
                       ELSE [trace EXCEPT !.n2 = one(c.set), !.queries = 2,
                                          !.seen = IF live(store, loaded.id)
                                                   THEN store[loaded.id].owner
                                                   ELSE "gone"]
           /\ IF r # NoResp
              THEN Finish(r) /\ UNCHANGED loaded
              ELSE /\ pc' = "checked"
                   /\ loaded' = IF pick(c.set) = loaded.id THEN loaded
                                ELSE load(store, pick(c.set))
                   /\ UNCHANGED resp
    /\ UNCHANGED <<store, req>>

on_patch_locate(route, id, obj, params) ==
    /\ obj.id = 0
    /\ locate("PATCH", route, id, <<obj>>, params)

on_patch_requery ==
    /\ req.method = "PATCH"
    /\ requery

on_delete_locate(route, id, params) ==
    /\ id \in Ids
    /\ locate("DELETE", route, id, <<>>, params)

on_delete_requery ==
    /\ req.method = "DELETE"
    /\ requery

on_put_locate(route, id, obj) ==
    /\ obj.id = 0
    /\ locate("PUT", route, id, <<obj>>, <<>>)

\* --------------------------------------------- SingleResource: the commit
changed(row, now) == now.owner # row.owner \/ now.deleted # row.deleted

\* After a commit the resource is expired; serializing it reloads the row,
\* which fails when the row is gone.
reloaded(tbl, i, status) ==
    IF live(tbl, i) THEN Response(status, "", <<serialize(tbl, i)>>) ELSE InternalError

\* on_patch, from setattr to the response.
patch_commit(tbl, ld, obj) ==
    LET now   == setattrs(ld.row, obj)
        flush == flush_update(tbl, ld, now, changed(ld.row, now))
    IN  CASE flush.err = "unique" -> Outcome(UniqueError, rollback(tbl, flush.tbl), "unique")
          [] flush.err = "stale"  -> Outcome(Violated, rollback(tbl, flush.tbl), "stale")
          [] OTHER                -> Outcome(reloaded(flush.tbl, ld.id, 200), flush.tbl, "none")

\* on_put, from deserialize to the response.  A new resource takes the path
\* attributes on top of the body's; StaleDataError has no handler of its
\* own: it is rolled back and raised again.
put_commit(tbl, ld, id, obj) ==
    IF ld = NoLoad
    THEN LET flush == flush_insert(tbl, [attributes(obj) EXCEPT !.id = id])
         IN  IF flush.err # "none"
             THEN Outcome(UniqueError, rollback(tbl, flush.tbl), flush.err)
             ELSE Outcome(reloaded(flush.tbl, id, 201), flush.tbl, "none")
    ELSE LET now   == setattrs(ld.row, obj)
             flush == flush_update(tbl, ld, now, changed(ld.row, now))
         IN  CASE flush.err = "unique" -> Outcome(UniqueError, rollback(tbl, flush.tbl), "unique")
               [] flush.err = "stale"  -> Outcome(InternalError, rollback(tbl, flush.tbl), "stale")
               [] OTHER                -> Outcome(reloaded(flush.tbl, ld.id, 200), flush.tbl, "none")

\* on_delete, from mark_deleted / Query.delete() to the response.  matches:
\* the rows the request's query selects now; linked: the store refuses the
\* DELETE because other content references a row (IntegrityError).
delete_commit(tbl, route, ld, matches, linked) ==
    IF route.soft
    THEN LET now   == [owner |-> ld.row.owner, deleted |-> STAMP]
             flush == flush_update(tbl, ld, now, TRUE)
         IN  CASE flush.err = "stale"  -> Outcome(Violated, rollback(tbl, flush.tbl), "stale")
               [] flush.err = "unique" -> Outcome(LinkedError, rollback(tbl, flush.tbl), "unique")
               [] OTHER                -> Outcome(Response(200, "", <<>>), flush.tbl, "none")
    ELSE IF linked /\ matches # {}
         THEN Outcome(LinkedError, rollback(tbl, bulk_delete(tbl, matches)), "linked")
         ELSE Outcome(Response(200, "", <<>>), bulk_delete(tbl, matches), "none")

\* A request whose JSON body is an array: deserialize parses the elements
\* of r.body, and an object body as the list of that one object.
WithArray(r) == r @@ [array |-> TRUE]
is_array(r)  == "array" \in DOMAIN r

\* on_put and on_patch around deserialize: `attributes, _ = ...` unpacks
\* list(zip(*deserialized)), which is empty for an empty list (ValueError),
\* and more than one parsed element is refused; `out` is what the handler
\* does with the one element otherwise.
single_body(r, tbl, out) ==
    IF Len(r.body) = 0 THEN Outcome(InternalError, tbl, "-")
    ELSE IF Len(r.body) > 1 THEN Outcome(ArrayBody, tbl, "-")
    ELSE out

on_patch_commit ==
    /\ pc = "checked"
    /\ req.method = "PATCH"
    /\ LET out == single_body(req, store, patch_commit(store, loaded, req.body[1]))
       IN  InBounds(out.tbl) /\ finish(req, trace, shown(req, out))
    /\ UNCHANGED <<req, loaded>>

on_put_commit ==
    /\ pc = "located"
    /\ req.method = "PUT"
    /\ LET out == single_body(req, store, put_commit(store, loaded, req.id, req.body[1]))
       IN  InBounds(out.tbl) /\ finish(req, trace, shown(req, out))
    /\ UNCHANGED <<req, loaded>>

on_delete_commit ==
    /\ pc = "checked"
    /\ req.method = "DELETE"
    /\ \E linked \in BOOLEAN :
          LET out == delete_commit(store, req.route, loaded,
                                   conditions(req, store).set, linked)
          IN  InBounds(out.tbl) /\ finish(req, trace, out)
    /\ UNCHANGED <<req, loaded>>

\* ------------------------------------------------------------ other actors
\* Another process commits to the table while the request is in flight.
other(tbl, i) ==
    /\ pc \in {"located", "checked"}
    /\ trace.others < MaxOthers
    /\ InBounds(tbl)
    /\ store' = tbl
    /\ trace' = [trace EXCEPT
                    !.others = @ + 1,
                    !.raced  = @ \/ (pc = "checked" /\ i = loaded.id)]
    /\ UNCHANGED <<pc, req, loaded, resp>>

other_update(i, owner) ==
    /\ live(store, i)
    /\ owner # store[i].owner
    /\ ~owner_taken(store, i, owner)
    /\ other([store EXCEPT ![i].owner = owner, ![i].version = @ + 1], i)

other_insert(i) ==
    /\ ~live(store, i)
    /\ other([store EXCEPT ![i] = [owner |-> NULL, deleted |-> NULL, version |-> 1]], i)

other_delete(i) ==
    /\ live(store, i)
    /\ other([store EXCEPT ![i] = NoRow], i)

\* ------------------------------------------------------ the specifications
\* The requests address /resource/1; the rows of the table, the objects of a
\* body and the other actors range over all of Ids.
PathIds          == {1}
GetRoutes        == {PlainRoute, AccountRoute, BareRoute}
PutRoutes        == {PlainRoute, InsertRoute, BareRoute}
PatchRoutes      == {PlainRoute, AccountRoute, BareRoute}
DeleteRoutes     == {PlainRoute, AccountRoute, GuardedRoute, BareRoute}
CollectionRoutes == {BareRoute, [BareRoute EXCEPT !.soft = TRUE]}
PatchBodies      == {Obj(0, o) : o \in Owners \cup {NULL}}
PutBodies        == {Obj(0, o) : o \in Owners \cup {NULL, ABSENT}}
PostBodies       == {Obj(i, o) : i \in Ids, o \in Owners \cup {ABSENT}}
BatchBodies      == {Obj(i, o) : i \in Ids, o \in {"Don Draper", ABSENT}}
Patches          == {[b EXCEPT !.op = "add"] : b \in BatchBodies} \cup
                    {[Obj(0, ABSENT) EXCEPT !.op = "remove"]}

\* The sequences over S of length 1..n.
RECURSIVE SeqsUpTo(_, _)
SeqsUpTo(S, n) ==
    IF n = 0 THEN {}
    ELSE LET shorter == SeqsUpTo(S, n - 1)
         IN  {<<x>> : x \in S} \cup shorter \cup
             {Append(q, x) : q \in {r \in shorter : Len(r) = n - 1}, x \in S}

\* Array bodies and patch lists of up to MaxBatch entries.
PostArrays == SeqsUpTo(BatchBodies, MaxBatch)
PatchLists == SeqsUpTo(Patches, MaxBatch)

\* Query strings: none, column filters, a reserved parameter, and keys the
\* compiler rejects.
QueryStrings ==
    { <<>>,
      <<Param(<<"owner">>, "Don Draper")>>,
      <<Param(<<"owner", "null">>, "1")>>,
      <<Param(<<"", "foo">>, "1")>>,
      <<Param(<<"bogus">>, "x")>>,
      <<Param(<<"owner", "null">>, "0"), Param(<<"bogus", "null">>, "1")>>,
      <<Param(<<"team">>, "x")>>,
      <<Param(<<"indirect_name">>, "x")>>,
      <<Param(<<"owner", "in", "x">>, "x")>>,
      <<Param(<<"owner", "like">>, "x")>> }

\* Query strings of one filter each: every operator on a column, the null
\* operator with several raw values, and operators on other attributes.
FilterStrings ==
    QueryStrings
    \cup { <<Param(<<"owner", op>>, "Don Draper")>> : op \in Comparisons \ {"=", "in"} }
    \cup { <<Param(<<"owner", "null">>, value)>> : value \in {"", "0", "false"} }
    \cup { <<Param(<<"deleted", "null">>, "0")>>,
           <<Param(<<"owner", "lte">>, "Pete Campbell")>>,
           <<Param(<<"owner", "contains">>, "")>>,
           <<Param(<<"team", "like">>, "x")>>,
           <<Param(<<"indirect_name", "like">>, "x")>>,
           <<Param(<<"indirect_name", "in", "x">>, "x")>> }

\* __sort lists, and the query strings that carry them.
SortLists ==
    { <<f>> : f \in { <<"owner">>, <<"-", "owner">>, <<"id">>, <<"-", "id">>,
                      <<"deleted">>, <<"-", "deleted">>, <<"-">>,
                      <<"bogus">>, <<"team">>, <<"-", "indirect_name">> } }
    \cup { <<(<<"deleted">>), (<<"-", "owner">>)>> }
SortParams == {<<>>} \cup { <<Param(<<"", "sort">>, sort)>> : sort \in SortLists }

\* __offset and __limit, each given or not.
PageParams ==
    LET offsets == {<<>>} \cup { <<Param(<<"", "offset">>, o)>> : o \in 0..MaxPage }
        limits  == {<<>>} \cup { <<Param(<<"", "limit">>, k)>> : k \in 0..MaxPage }
    IN  { o \o k : o \in offsets, k \in limits }

ListRoutes == {BareRoute, SortedRoute, MisSortedRoute}

\* Routes with meta producers and declared relations, and the reserved
\* parameters of their GETs.
Producers  == {Static({}), Static({"state", "size"}), Dynamic({}), Dynamic({"team_size"})}
MetaRoutes == {PlainRoute} \cup {WithMeta(PlainRoute, p, e) : p \in Producers, e \in {0, 1}}
ItemRoutes == {WithMeta(BareRoute, p, e) : p \in Producers, e \in {0, 1}}
IncludedParams ==
    {<<>>} \cup { <<Param(<<"", "included">>, names)>> :
                    names \in {<<"self">>, <<"others">>, <<"self", "others">>, <<"bogus">>,
                               <<"others", "bogus">>} }
WithoutSize == {<<>>, <<Param(<<"", "without_size">>, "1")>>}

\* Raw values of an `__in` filter.
InValues == SeqsUpTo(Chars, MaxLen)
InLists  == {<<"[", "Don Draper", ",", "]">>, <<"[", "]">>, <<"[", ",", "]", "]">>}

\* Other actors, and the end of a request.
Environment ==
    \/ \E i \in Ids, owner \in Owners \cup {NULL} : other_update(i, owner)
    \/ \E i \in Ids : other_insert(i)
    \/ \E i \in Ids : other_delete(i)
    \/ process_response

\* PATCH and DELETE of single resources and POST of single objects, one
\* request at a time, with other actors committing between its steps.
Next ==
    \/ \E obj \in PostBodies : on_post(<<obj>>)
    \/ \E route \in PatchRoutes, id \in PathIds, obj \in PatchBodies :
          on_patch_locate(route, id, obj, <<>>)
    \/ on_patch_requery
    \/ on_patch_commit
    \/ \E route \in DeleteRoutes, id \in PathIds : on_delete_locate(route, id, <<>>)
    \/ on_delete_requery
    \/ on_delete_commit
    \/ Environment

Spec == Init /\ [][Next]_vars

\* PUT of single resources and POST of single objects, with other actors.
NextPut ==
    \/ \E obj \in PostBodies : on_post(<<obj>>)
    \/ \E route \in PutRoutes, id \in PathIds, obj \in PutBodies :
          on_put_locate(route, id, obj)
    \/ on_put_commit
    \/ Environment

SpecPut == Init /\ [][NextPut]_vars

\* POST of arrays and PATCH of the collection, one request after the other.
NextBatch ==
    \/ \E body \in PostArrays : on_post(body)
    \/ \E patches \in PatchLists : on_patch_collection(patches)
    \/ process_response

SpecBatch == Init /\ [][NextBatch]_vars

\* Requests with query strings, one after the other.
NextQuery ==
    \/ \E obj \in PostBodies : on_post(<<obj>>)
    \/ \E route \in GetRoutes, id \in PathIds : on_get(route, id, <<>>)
    \/ \E route \in CollectionRoutes, params \in FilterStrings :
          on_get_collection(route, params)
    \/ \E route \in CollectionRoutes, value \in InLists : on_get_in(route, "owner", value)
    \/ \E route \in PatchRoutes, id \in PathIds, obj \in PatchBodies,
          params \in QueryStrings : on_patch_locate(route, id, obj, params)
    \/ on_patch_requery
    \/ on_patch_commit
    \/ \E route \in DeleteRoutes, id \in PathIds, params \in QueryStrings :
          on_delete_locate(route, id, params)
    \/ on_delete_requery
    \/ on_delete_commit
    \/ process_response

SpecQuery == Init /\ [][NextQuery]_vars

\* Collection GETs with an `__in` filter on owner, one after the other.
NextIn ==
    \/ \E obj \in PostBodies : on_post(<<obj>>)
    \/ \E value \in InValues : on_get_in(BareRoute, "owner", value)
    \/ process_response

SpecIn == Init /\ [][NextIn]_vars

\* Sorted and paginated collection GETs, one after the other.
NextPage ==
    \/ \E obj \in PostBodies : on_post(<<obj>>)
    \/ \E route \in ListRoutes, sort \in SortParams, page \in PageParams :
          on_get_page(route, sort, page)
    \/ process_response

SpecPage == Init /\ [][NextPage]_vars

\* A single GET with __included and __without_size (relations are resolved
\* on routes without extra_select columns).
on_get_included(route, id, names, size) ==
    /\ names # <<>> => config(route, "extra_select", 0) = 0
    /\ on_get(route, id, names \o size)

\* GETs of routes with meta producers and relations, one after the other.
NextGet ==
    \/ \E obj \in PostBodies : on_post(<<obj>>)
    \/ \E route \in MetaRoutes, id \in Ids, names \in IncludedParams, size \in WithoutSize :
          on_get_included(route, id, names, size)
    \/ \E route \in ItemRoutes, size \in WithoutSize : on_get_collection(route, size)
    \/ process_response

SpecGet == Init /\ [][NextGet]_vars

\* Routes with a response field selection, and the X-Fields header of a
\* request (none, or one with its names).
FieldLists  == {<<>>, <<"id", "owner">>, <<"owner", "team">>, <<"id", "indirect_name">>}
FieldRoutes == {PlainRoute, PlainRoute @@ [response_fields |-> FromHeader]}
               \cup {PlainRoute @@ [response_fields |-> Fields(names)] : names \in FieldLists}
Headers     == {<<>>} \cup {<<names>> : names \in FieldLists}
Sent(r, header) == IF header = <<>> THEN r ELSE WithHeader(r, header[1])

on_get_fields(route, id, header) ==
    get(Sent(Request("single", "GET", route, id, <<>>, <<>>), header))

on_get_collection_fields(route, header) ==
    get_collection(Sent(Request("collection", "GET", route, 0, <<>>, <<>>), header))

on_post_fields(route, obj, header) ==
    post(Sent(Request("collection", "POST", route, 0, <<obj>>, <<>>), header))

on_put_fields(route, id, obj, header) ==
    /\ obj.id = 0
    /\ locate_record(Sent(Request("single", "PUT", route, id, <<obj>>, <<>>), header))

on_patch_fields(route, id, obj, header) ==
    /\ obj.id = 0
    /\ locate_record(Sent(Request("single", "PATCH", route, id, <<obj>>, <<>>), header))

\* Requests to routes with a response field selection, one after the other.
NextFields ==
    \/ \E route \in FieldRoutes, id \in PathIds, header \in Headers :
          on_get_fields(route, id, header)
    \/ \E route \in FieldRoutes, header \in Headers : on_get_collection_fields(route, header)
    \/ \E route \in FieldRoutes, obj \in PostBodies, header \in Headers :
          on_post_fields(route, obj, header)
    \/ \E route \in FieldRoutes, id \in PathIds, obj \in PutBodies, header \in Headers :
          on_put_fields(route, id, obj, header)
    \/ on_put_commit
    \/ \E route \in FieldRoutes, id \in PathIds, obj \in PatchBodies, header \in Headers :
          on_patch_fields(route, id, obj, header)
    \/ on_patch_requery
    \/ on_patch_commit
    \/ process_response

SpecFields == Init /\ [][NextFields]_vars

\* Routes that restrict their methods and define every hook.
Hooks        == {"before_post", "after_post", "before_put", "after_put",
                 "before_patch", "after_patch", "before_delete", "after_delete"}
MethodSets   == {{"GET"}, {"POST", "PUT", "PATCH", "DELETE"}}
MethodRoutes == {PlainRoute @@ [hooks |-> Hooks]}
                \cup {PlainRoute @@ [methods |-> m, hooks |-> Hooks] : m \in MethodSets}

on_patch_collection_of(route, patches) ==
    patch_collection(Request("collection", "PATCH", route, 0, patches, <<>>))

\* Every handler of both resource classes on routes that restrict their
\* methods, one request after the other.
NextMethods ==
    \/ \E route \in MethodRoutes, id \in PathIds : on_get(route, id, <<>>)
    \/ \E route \in MethodRoutes : on_get_collection(route, <<>>)
    \/ \E route \in MethodRoutes, obj \in PostBodies : on_post_fields(route, obj, <<>>)
    \/ \E route \in MethodRoutes, patch \in Patches : on_patch_collection_of(route, <<patch>>)
    \/ \E route \in MethodRoutes, id \in PathIds, obj \in PutBodies :
          on_put_locate(route, id, obj)
    \/ on_put_commit
    \/ \E route \in MethodRoutes, id \in PathIds, obj \in PatchBodies :
          on_patch_locate(route, id, obj, <<>>)
    \/ on_patch_requery
    \/ on_patch_commit
    \/ \E route \in MethodRoutes, id \in PathIds : on_delete_locate(route, id, <<>>)
    \/ on_delete_requery
    \/ on_delete_commit
    \/ process_response

SpecMethods == Init /\ [][NextMethods]_vars

\* PUT and PATCH bodies that are JSON arrays, of 0 to MaxBatch objects.
ArrayBodies == {<<>>} \cup SeqsUpTo(PatchBodies, MaxBatch)

on_put_array(route, id, body) ==
    locate_record(WithArray(Request("single", "PUT", route, id, body, <<>>)))

on_patch_array(route, id, body) ==
    locate_record(WithArray(Request("single", "PATCH", route, id, body, <<>>)))

\* PUT and PATCH of single resources with object and array bodies, one
\* request after the other.
NextArray ==
    \/ \E obj \in PostBodies : on_post(<<obj>>)
    \/ \E route \in {PlainRoute, InsertRoute}, id \in PathIds, obj \in PutBodies :
          on_put_locate(route, id, obj)
    \/ \E route \in {PlainRoute, InsertRoute}, id \in PathIds, body \in ArrayBodies :
          on_put_array(route, id, body)
    \/ on_put_commit
    \/ \E id \in PathIds, obj \in PatchBodies : on_patch_locate(PlainRoute, id, obj, <<>>)
    \/ \E id \in PathIds, body \in ArrayBodies : on_patch_array(PlainRoute, id, body)
    \/ on_patch_requery
    \/ on_patch_commit
    \/ process_response

SpecArray == Init /\ [][NextArray]_vars

\* Body objects for the parser: every selection of the entries below, which
\* name columns of several types, a property, relationships with nested
\* objects (that name relationships in turn) and keys the model lacks.
RECURSIVE Select(_, _, _)
Select(entries, S, k) ==
    IF k > Len(entries) THEN <<>>
    ELSE (IF k \in S THEN <<entries[k]>> ELSE <<>>) \o Select(entries, S, k + 1)

Selections(entries) ==
    {b \in {Select(entries, S, 1) : S \in SUBSET (1..Len(entries))} :
        Cardinality(Keys(b)) = Len(b)}

NestedCharacter(v) ==
    <<Entry("name", Str(v)), Entry("indirect_name", Str(v)),
      Entry("team", Dict(<<Entry("name", Str(v))>>)), Entry("bogus", Str(v))>>
NestedTeam ==
    <<Entry("name", Str(1)),
      Entry("characters", List(<<(<<Entry("name", Str(2))>>)>>)), Entry("bogus", Str(1))>>

CharacterEntries ==
    <<Entry("name", Str(1)), Entry("indirect_name", Str(2)),
      Entry("team", Dict(NestedTeam)), Entry("bogus", Str(1))>>
TeamEntries ==
    <<Entry("name", Str(1)),
      Entry("characters", List(<<NestedCharacter(1), NestedCharacter(2)>>)),
      Entry("bogus", Str(2))>>
EmployeeEntries ==
    <<Entry("name", Str(1)),
      Entry("joined", Value("str", "%Y-%m-%dT%H:%M:%SZ", 1, 0)),
      Entry("joined", None),
      Entry("start_time", Value("str", "isoformat", 1, 0)),
      Entry("start_time", Value("str", "isoformat", 1, 1)),
      Entry("company", Dict(<<Entry("name", Str(1)), Entry("employees", List(<<>>))>>))>>

ModelBodies ==
    {[model |-> "Character", body |-> b] : b \in Selections(CharacterEntries)}
    \cup {[model |-> "Team", body |-> b] : b \in Selections(TeamEntries)}
    \cup {[model |-> "Employee", body |-> b] : b \in Selections(EmployeeEntries)}

\* Bodies of a POST to /teams/{team_id}/characters: an object, or an array
\* of up to MaxBatch objects, that give a team_id of their own or none.
PathData == {<<>>, <<Entry("team_id", Str(7))>>, <<Entry("team", Str(7))>>}
PostedCharacters ==
    {<<>>, <<Entry("team_id", Str(1))>>,
     <<Entry("name", Str(1)), Entry("team_id", Str(2)), Entry("bogus", Str(1))>>,
     <<Entry("name", Str(2)), Entry("team", Dict(NestedTeam))>>}
PostedBodies ==
    {Dict(b) : b \in PostedCharacters}
    \cup {List(<<>>)}
    \cup {List(bodies) : bodies \in SeqsUpTo(PostedCharacters, MaxBatch)}

\* on_post from deserialize to the objects it adds to the session; the
\* parse and the objects are kept as the response.
on_post_deserialize(route, path_data, body_data) ==
    /\ pc = "idle"
    /\ pc'     = "done"
    /\ req'    = Request("doc", "POST", route, 0, body_data, <<>>)
                     @@ [model |-> "Character", kwargs |-> path_data]
    /\ LET d == deserialize("Character", path_data, body_data, allow_subresources(route))
       IN  resp' = d @@ [msg |-> "", data |-> <<>>,
                         resources |-> IF d.status = 0
                                       THEN resources_of("Character", d, 1) ELSE <<>>]
    /\ trace'  = NoTrace
    /\ loaded' = NoLoad
    /\ UNCHANGED store

\* One call of parse_body_dict; the result is kept as the response.
on_parse(model, allow_recursion, body) ==
    /\ pc = "idle"
    /\ pc'     = "done"
    /\ req'    = Request("body", "parse", PlainRoute, 0, body, <<>>)
                     @@ [model |-> model, allow_recursion |-> allow_recursion]
    /\ resp'   = parse_body_dict(model, allow_recursion, body) @@ [msg |-> "", data |-> <<>>]
    /\ trace'  = NoTrace
    /\ loaded' = NoLoad
    /\ UNCHANGED store

\* The values a column of each type stores: None, and MaxStored instants or
\* numbers, each with and without microseconds (a Decimal: a binary fraction
\* or not).
MaxStored == 2
Stored(column_type) ==
    LET values(type, fracs) == {Value(type, "", v, f) : v \in 1..MaxStored, f \in fracs}
    IN  CASE column_type = "DateTime" -> {None} \cup values("datetime", {0, 1})
          [] column_type = "Date"     -> {None} \cup values("date", {0})
          [] column_type = "Time"     -> {None} \cup values("time", {0, 1})
          [] column_type = "Numeric"  -> {None} \cup values("Decimal", {0, 1})
          [] column_type = "UUID"     -> {None} \cup values("uuid", {0})
          [] column_type = "Integer"  -> {None} \cup values("int", {0})
          [] OTHER                    -> {None} \cup values("str", {0})
ColumnTypes == {"DateTime", "Date", "Time", "Numeric", "UUID", "Integer", "String"}
Modes(column_type) == IF column_type = "DateTime" THEN {"default", "naive", "ms"} ELSE {"default"}

\* A stored value is serialized, and the result parsed for the same column.
on_round_trip(column_type, mode, value) ==
    /\ pc = "idle"
    /\ pc'     = "done"
    /\ req'    = Request("value", "", PlainRoute, 0, <<>>, <<>>)
                     @@ [column_type |-> column_type, mode |-> mode, value |-> value]
    /\ resp'   = decode(column_type, mode, serialize_value(mode, value))
                     @@ [msg |-> "", data |-> <<>>, wire |-> serialize_value(mode, value)]
    /\ trace'  = NoTrace
    /\ loaded' = NoLoad
    /\ UNCHANGED store

\* The parser and the codec as pure functions, one call after the other.
NextParse ==
    \/ \E input \in ModelBodies, allow_recursion \in BOOLEAN :
          on_parse(input.model, allow_recursion, input.body)
    \/ \E route \in {PlainRoute, PlainRoute @@ [allow_subresources |-> TRUE]},
          path_data \in PathData, body_data \in PostedBodies :
          on_post_deserialize(route, path_data, body_data)
    \/ \E column_type \in ColumnTypes :
          \E mode \in Modes(column_type), value \in Stored(column_type) :
              on_round_trip(column_type, mode, value)
    \/ process_response

SpecParse == Init /\ [][NextParse]_vars

\* -------------------------------------------------------------- properties
Finished(res, method) == pc = "done" /\ req.res = res /\ req.method = method

\* The object a GET serializes for row i with the given owner, not marked.
Shown(i, owner) == [id |-> i, owner |-> owner, deleted |-> NULL]

\* What the filter compiler rejects first in a query string, keys taken in
\* order: "parts", the kind of a non-column attribute, "op", or "none".
RECURSIVE first_rejected(_)
first_rejected(params) ==
    IF params = <<>> THEN "none"
    ELSE LET parts == Head(params).key
         IN  IF parts[1] = "" THEN first_rejected(Tail(params))
             ELSE IF Len(parts) > 2 THEN "parts"
             ELSE IF AttrKind(parts[1]) # "column" THEN AttrKind(parts[1])
             ELSE IF Len(parts) = 2 /\ parts[2] \notin Comparisons THEN "op"
             ELSE first_rejected(Tail(params))

Compiles ==
    \/ Finished("collection", "GET")
    \/ Finished("single", "PATCH")
    \/ Finished("single", "DELETE")

C2_RaceDetected ==
    (pc = "done" /\ req.res = "single" /\ trace.raced
        /\ (req.method = "PATCH" \/ (req.method = "DELETE" /\ req.route.soft))) =>
        /\ resp = Violated
        /\ ~trace.wrote

\* C3: a DELETE of a record that has an owner when a delete_precondition
\* requiring owner IS NULL is queried ends in 409 'Resource found but
\* conditions violated', deletes nothing, and (no other actor committing) a
\* GET still returns the record; a DELETE whose precondition holds for
\* exactly one record reaches the commit and, the store accepting it with no
\* other actor committing, returns 200 and a GET of the record returns 404.
C3_DeletePrecondition ==
    (Finished("single", "DELETE") /\ trace.n1 = "one" /\ trace.seen \in Owners \cup {NULL}) =>
        /\ (req.route.precond /\ trace.seen \in Owners) =>
              /\ resp = Violated
              /\ ~trace.wrote
              /\ (trace.others = 0 /\ (req.route.soft => store[loaded.id].deleted = NULL)) =>
                    single_get(store, req.route, req.id)
                        = Response(200, "", <<serialize(store, loaded.id)>>)
        /\ (req.route.precond => trace.seen = NULL) =>
              /\ req.route.keyed => trace.n2 = "one"
              /\ trace.n2 = "one" => trace.err # "-"
              /\ (trace.n2 = "one" /\ trace.others = 0 /\ trace.err = "none") =>
                    /\ resp = Response(200, "", <<>>)
                    /\ single_get(store, req.route, req.id) = NotFound

\* A DELETE met an owner on a route with the precondition and was refused.
C3_Witness ==
    /\ Finished("single", "DELETE")
    /\ req.route.precond
    /\ trace.seen \in Owners
    /\ resp = Violated
    /\ live(store, loaded.id)

\* C4: in single-record PATCH and in DELETE, a first lookup with no match
\* ends in 404 and one with several matches in 500, both before the
\* re-lookup; a re-lookup with no match ends in 409 'Resource found but
\* conditions violated' and one with several matches in 500; the record is
\* mutated and committed exactly when both lookups found one record.
C4_LookupStateMachine ==
    (pc = "done" /\ req.res = "single" /\ req.method \in {"PATCH", "DELETE"}) =>
        /\ trace.n1 = "none" => (resp = NotFound /\ trace.n2 = "-")
        /\ trace.n1 = "many" => (resp = InternalError /\ trace.n2 = "-")
        /\ trace.n2 = "none" => resp = Violated
        /\ trace.n2 = "many" => resp = InternalError
        /\ (trace.err # "-" \/ trace.wrote) <=> (trace.n1 = "one" /\ trace.n2 = "one")

\* A PATCH whose first lookup found one record and whose re-lookup found
\* several.
C4_Witness ==
    /\ Finished("single", "PATCH")
    /\ trace.n1 = "one"
    /\ trace.n2 = "many"
    /\ resp = InternalError

\* C5: PUT on a single resource: no match ends in 404 with nothing created
\* unless allow_put_insert is set, and then the insert is attempted and,
\* the store accepting it, exactly one record is added and the status is
\* 201; one match is updated in place, no record added, and (no other actor
\* committing) the status is 200; several matches end in 500 with nothing
\* changed.
C5_PutDispatch ==
    Finished("single", "PUT") =>
        /\ (trace.n1 = "none" /\ ~req.route.put_insert) =>
              (resp = NotFound /\ ~trace.wrote /\ trace.err = "-")
        /\ (trace.n1 = "none" /\ req.route.put_insert) =>
              /\ trace.err # "-"
              /\ trace.err = "none" =>
                    /\ Cardinality(LiveIds(store)) = trace.rows + 1
                    /\ resp = Response(201, "", <<serialize(store, req.id)>>)
                    /\ resp.data[1].owner = attributes(req.body[1]).owner
        /\ trace.n1 = "one" =>
              /\ trace.err # "-"
              /\ trace.err = "none" => Cardinality(LiveIds(store)) = trace.rows
              /\ (trace.err = "none" /\ trace.others = 0) =>
                    /\ resp = Response(200, "", <<serialize(store, loaded.id)>>)
                    /\ store[loaded.id].owner = setattrs(loaded.row, req.body[1]).owner
        /\ trace.n1 = "many" =>
              (resp = InternalError /\ ~trace.wrote /\ trace.err = "-")

\* A PUT that matched nothing on a route with allow_put_insert created the
\* record.
C5_Witness ==
    /\ Finished("single", "PUT")
    /\ req.route.put_insert
    /\ trace.n1 = "none"
    /\ resp.status = 201
    /\ Cardinality(LiveIds(store)) = trace.rows + 1

\* C6: a POST with an array body, or a collection PATCH, that ends in an
\* error (a uniqueness violation at the commit, or an invalid patch
\* operation at any index) leaves the table exactly as it was: none of the
\* request's records is stored.
C6_NoPartialCommit ==
    (pc = "done" /\ req.res = "collection" /\ req.method \in {"POST", "PATCH"}
        /\ resp.status >= 400) =>
        /\ ~trace.wrote
        /\ Cardinality(LiveIds(store)) = trace.rows
        /\ resp \in {UniqueError, BadPatch}

\* A POST of several records failed at a later record; the first, which the
\* table had room for, is not there.
C6_Witness ==
    /\ Finished("collection", "POST")
    /\ Len(req.body) >= 2
    /\ resp = UniqueError
    /\ ~live(store, req.body[1].id)

\* C7: in every mutating operation, a uniqueness, foreign-key or stale-data
\* failure raised by the store at the commit is rolled back and answered
\* with 409 and one of the three fixed messages.
C7_CommitErrorsAre409 ==
    (pc = "done" /\ trace.err \in {"unique", "linked", "stale"}) =>
        /\ resp \in {UniqueError, LinkedError, Violated}
        /\ ~trace.wrote

\* C8: after a successful POST of a single record, a collection GET without
\* filters returns the record with the posted values and null for the
\* columns the body did not give, a GET by its id returns the same object,
\* and so does the POST itself.
C8_PostThenGet ==
    (Finished("collection", "POST") /\ Len(req.body) = 1 /\ resp.status = 201) =>
        LET obj      == req.body[1]
            expected == Shown(obj.id, IF obj.owner = ABSENT THEN NULL ELSE obj.owner)
            listed   == collection_get(store, BareRoute, <<>>)
        IN  /\ listed.status = 200
            /\ \E k \in DOMAIN listed.data : listed.data[k] = expected
            /\ single_get(store, PlainRoute, obj.id) = Response(200, "", <<expected>>)
            /\ resp.data = <<expected>>

\* A record posted without an owner, next to another record.
C8_Witness ==
    /\ Finished("collection", "POST")
    /\ resp.status = 201
    /\ req.body[1].owner = ABSENT
    /\ Cardinality(LiveIds(store)) = 2

\* C9 (as stated): in collection GET, single-record PATCH and DELETE, a
\* filter key that names no attribute ends the request in 400 with no store
\* query issued.
C9_RejectedBeforeAnyQuery ==
    (Compiles /\ first_rejected(req.params) = "missing") =>
        /\ resp = BadFilter
        /\ trace.queries = 0

\* C9 (amended): a filter key that names no attribute ends a collection GET
\* in 400 with no store query issued; a single-record PATCH or DELETE has by
\* then located the record with one query, ends in 404 (no record) or 500
\* (several) before the key is compiled, and in 400 otherwise, before the
\* re-lookup; in no case is anything written.
C9_RejectedBeforeRelookup ==
    (Compiles /\ first_rejected(req.params) = "missing") =>
        /\ ~trace.wrote
        /\ trace.err = "-"
        /\ req.res = "collection" => (resp = BadFilter /\ trace.queries = 0)
        /\ req.res = "single" =>
              /\ trace.queries = 1
              /\ trace.n2 = "-"
              /\ trace.n1 = "none" => resp = NotFound
              /\ trace.n1 = "many" => resp = InternalError
              /\ trace.n1 = "one"  => resp = BadFilter

\* A PATCH of an existing record with an unknown filter key.
C9_Witness ==
    /\ Finished("single", "PATCH")
    /\ first_rejected(req.params) = "missing"
    /\ trace.n1 = "one"
    /\ trace.queries = 1
    /\ resp = BadFilter

\* C10: a filter key that names a relationship or a Python property of the
\* model ends the request in 400, like a name the model does not have, and
\* never in 500.
C10_NonColumnRejected ==
    (Finished("collection", "GET")
        /\ first_rejected(req.params) \in {"relationship", "property"}) =>
        resp = BadFilter

\* The raw value matches ^\[[^\]]+\]$.
ListPattern(value) ==
    /\ Len(value) >= 3
    /\ value[1] = "["
    /\ value[Len(value)] = "]"
    /\ \A k \in 2..(Len(value) - 1) : value[k] # "]"

\* C11: a raw `__in` value is accepted exactly when it matches
\* ^\[[^\]]+\]$ -- every other value is answered with 400 -- and an accepted
\* value selects the rows whose column is one of the comma-separated
\* elements between the brackets.
C11_InListSyntax ==
    (/\ Finished("collection", "GET")
     /\ Len(req.params) = 1
     /\ req.params[1].key = <<"owner", "in">>)
        => LET value == req.params[1].value
               list  == split(SubSeq(value, 2, Len(value) - 1), ",")
           IN  IF ListPattern(value)
               THEN resp = Response(200, "",
                               rows_of(store,
                                   {i \in LiveIds(store) :
                                       \E k \in 1..Len(list) : list[k] = <<store[i].owner>>},
                                   1))
               ELSE resp.status = 400

\* An accepted value with a closing bracket between its brackets.
C11_Witness ==
    /\ Finished("collection", "GET")
    /\ Len(req.params) = 1
    /\ req.params[1].key = <<"owner", "in">>
    /\ ~ListPattern(req.params[1].value)
    /\ resp.status = 200

\* The rows a collection GET on the route starts from.
Listed(route) == get_filter(route, store, apply_arg_filter(route, 0, store))

\* A finished collection GET whose query string is one key.
OneKey == Finished("collection", "GET") /\ Len(req.params) = 1

\* C12: a key beginning with `__` adds no predicate; a key with more than
\* one `__` suffix or with an unrecognized operator is answered with 400;
\* every other key compiles: `field` to equality, `field__op` to op.
C12_KeyClassification ==
    OneKey =>
        LET parts == req.params[1].key
            value == req.params[1].value
            list  == param_string_to_list(value)
        IN  IF Len(parts) > 1 /\ parts[1] = ""
            THEN resp = Response(200, "", rows_of(store, Listed(req.route), 1))
            ELSE IF Len(parts) > 2 \/ (Len(parts) = 2 /\ parts[2] \notin Comparisons \ {"="})
            THEN resp.status = 400
            ELSE AttrKind(parts[1]) = "column" =>
                    IF Len(parts) = 2 /\ parts[2] = "in"
                    THEN list.status = 0 =>
                            resp = Response(200, "",
                                       rows_of(store, clause(store, Listed(req.route),
                                                             parts[1], "in", list.list), 1))
                    ELSE resp = Response(200, "",
                                    rows_of(store,
                                            clause(store, Listed(req.route), parts[1],
                                                   IF Len(parts) = 1 THEN "=" ELSE parts[2],
                                                   value), 1))

\* An unrecognized operator that is not answered with 400.
C12_Witness ==
    /\ OneKey
    /\ Len(req.params[1].key) = 2
    /\ req.params[1].key[2] \notin Comparisons
    /\ resp.status # 400

\* C13: the null operator on a column keeps the rows where the column IS
\* NULL for every raw value but "0" (the empty string and "false"
\* included), and the rows where it IS NOT NULL for "0".
C13_NullOperator ==
    (/\ OneKey
     /\ Len(req.params[1].key) = 2
     /\ req.params[1].key[2] = "null"
     /\ AttrKind(req.params[1].key[1]) = "column")
        => LET name == req.params[1].key[1]
           IN  resp = Response(200, "",
                          rows_of(store,
                                  {i \in Listed(req.route) :
                                      IF req.params[1].value = "0"
                                      THEN column(store, i, name) # NULL
                                      ELSE column(store, i, name) = NULL},
                                  1))

\* owner__null=false on a table with an owned and an unowned row.
C13_Witness ==
    /\ OneKey
    /\ req.params[1] = Param(<<"owner", "null">>, "false")
    /\ Len(resp.data) = 1
    /\ \E i \in Listed(req.route) : store[i].owner # NULL

Min(a, b) == IF a < b THEN a ELSE b
Max(a, b) == IF a > b THEN a ELSE b
Reverse(seq) == [k \in 1..Len(seq) |-> seq[Len(seq) + 1 - k]]

\* A finished collection GET that was answered with a list.
Paged ==
    /\ Finished("collection", "GET")
    /\ resp.status = 200
    /\ has_param(req.params, "offset") \/ has_param(req.params, "limit")

\* C14: over N matching records, __limit=k and __offset=o give
\* min(k, max(0, N - o)) records, and meta.total is N whenever __offset or
\* __limit is in the request, whatever their values (0 included).
C14_Pagination ==
    Paged =>
        LET N == Cardinality(filter_by_params(req.params, store, Listed(req.route)).set)
            o == IF has_param(req.params, "offset") THEN get_param(req.params, "offset") ELSE 0
            rest == Max(0, N - o)
        IN  /\ Len(resp.data) = IF has_param(req.params, "limit")
                                 THEN Min(get_param(req.params, "limit"), rest)
                                 ELSE rest
            /\ resp.meta.total = N

\* __offset=0 alone: the total is not counted.
C14_Witness ==
    /\ Paged
    /\ ~has_param(req.params, "limit")
    /\ get_param(req.params, "offset") = 0
    /\ LiveIds(store) # {}
    /\ resp.meta.total = NoCount

\* A finished collection GET sorted on the one column `name`, descending,
\* over rows with pairwise distinct values of it, without pagination.
SortedDown(name) ==
    /\ Finished("collection", "GET")
    /\ has_param(req.params, "sort")
    /\ get_param(req.params, "sort") = <<(<<"-", name>>)>>
    /\ ~has_param(req.params, "offset")
    /\ ~has_param(req.params, "limit")
    /\ \A i, j \in Listed(req.route) :
           i # j => sort_key(store, i, name) # sort_key(store, j, name)

\* C15: over rows with pairwise distinct values of a column f, the list a
\* collection GET returns for __sort=-f is the exact reverse of the list it
\* returns for __sort=f over the same store contents.
C15_SortReverse ==
    \A name \in {"id", "owner", "deleted"} :
        SortedDown(name) =>
            /\ resp.status = 200
            /\ resp.data =
                   Reverse(collection_get(store, req.route,
                               <<Param(<<"", "sort">>, <<(<<name>>)>>)>>).data)

\* Two rows, sorted by owner downwards: the order differs from the one
\* upwards.
C15_Witness ==
    /\ SortedDown("owner")
    /\ Len(resp.data) = MaxId
    /\ resp.data # Reverse(resp.data)
    /\ resp.data[1].id < resp.data[2].id

\* Some field of a sort names no column of the model.
Unsortable(sort) ==
    \E k \in 1..Len(sort) : AttrKind(field_name(sort[k])) # "column"

\* C16: a sort field that is no column (non-existent, relationship or
\* computed property) gives 400 when it comes from __sort and 500 when it
\* comes from the route's default_sort, and the default sort is used only
\* when __sort is absent.
C16_SortErrors ==
    Finished("collection", "GET") =>
        IF has_param(req.params, "sort")
        THEN IF Unsortable(get_param(req.params, "sort"))
             THEN resp = BadSort
             ELSE resp.status = 200
        ELSE IF Unsortable(config(req.route, "default_sort", <<>>))
             THEN resp = InternalError
             ELSE resp.status = 200

\* An explicit __sort on a computed property that is not answered with 400.
C16_Witness ==
    /\ Finished("collection", "GET")
    /\ has_param(req.params, "sort")
    /\ Unsortable(get_param(req.params, "sort"))
    /\ resp # BadSort

\* C17: GET-one, PUT, PATCH and DELETE resolve the record by the same fetch
\* plan (path filters, then the get_filter hook, exactly one match): the
\* record a PATCH or DELETE has located is one the hook lets through, the
\* record a GET of the same path returns from the same table.
C17_SameFetchPlan ==
    (pc = "located" /\ trace.others = 0) =>
        /\ loaded.id \in get_filter(req.route, store,
                                     apply_arg_filter(req.route, req.id, store))
        /\ single_get(store, req.route, req.id)
               = Response(200, "", <<serialize(store, loaded.id)>>)

\* A PATCH or DELETE that has located a record its route's hook hides.
C17_Witness ==
    /\ pc = "located"
    /\ trace.others = 0
    /\ req.route.soft
    /\ loaded.row.deleted = STAMP
    /\ single_get(store, req.route, req.id) = NotFound

\* A finished single GET that carried __included.
Including == Finished("single", "GET") /\ has_param(req.params, "included")

\* C18: a single GET with __included is answered with 400 when a listed
\* name is not declared in allowed_included; otherwise included holds one
\* entry {id, type, attributes} per record of each relation's resolver:
\* type the relation name, attributes the related record's serialization,
\* id the related record's own primary key.
C18_Included ==
    (Including /\ resp.status # 404) =>
        LET names == get_param(req.params, "included")
            rel   == related(store, req.id, names)
        IN  IF \E k \in 1..Len(names) :
                   names[k] \notin config(req.route, "allowed_included", {})
            THEN resp = BadIncluded
            ELSE /\ resp.status = 200
                 /\ resp.included =
                        [k \in 1..Len(rel) |->
                            [id         |-> rel[k].id,
                             type       |-> rel[k].type,
                             attributes |-> serialize(store, rel[k].id)]]

\* An included entry whose id is not the primary key of the record its
\* attributes show.
C18_Witness ==
    /\ Including
    /\ resp.status = 200
    /\ \E k \in 1..Len(resp.included) :
           /\ resp.included[k].type = "others"
           /\ resp.included[k].id = req.id
           /\ resp.included[k].attributes.id # req.id

\* C19: the body the boundary layer writes is the handler's result mapping
\* verbatim: the whole envelope, with the data key and, when the result has
\* them, the meta and included keys.
C19_BodyVerbatim ==
    (pc = "done" /\ resp.status \in {200, 201}) =>
        LET result == result_of(req, resp)
            body   == response_body(result)
        IN  /\ body.whole
            /\ body.keys = DOMAIN result
            /\ "data" \in DOMAIN result => body.data = result.data

\* A result with data and included whose body is the data alone.
C19_Witness ==
    /\ Including
    /\ resp.status = 200
    /\ "included" \in DOMAIN result_of(req, resp)
    /\ ~response_body(result_of(req, resp)).whole

\* The meta block of document doc is the one producer p is said to give
\* for the arguments args.
MetaAsStated(p, doc, args) ==
    IF p.dynamic
    THEN IF has_param(req.params, "without_size")
         THEN "meta" \notin DOMAIN doc
         ELSE /\ "meta" \in DOMAIN doc
              /\ DOMAIN doc.meta = p.names
              /\ \A n \in p.names : doc.meta[n] = Call(n, args)
    ELSE IF p.names = {}
         THEN "meta" \notin DOMAIN doc
         ELSE /\ "meta" \in DOMAIN doc
              /\ DOMAIN doc.meta = p.names
              /\ \A n \in p.names : doc.meta[n] = Call(n, args)

\* The arguments a meta function gets for row i: the record and the extra
\* projected columns.
MetaArgs(i) ==
    IF config(req.route, "extra_select", 0) > 0
    THEN <<i, Cardinality(LiveIds(store))>> ELSE <<i>>

\* C20: for the items of a collection GET and for a single GET alike, a
\* dynamic meta function gives a meta key exactly when it returned a
\* mapping (an empty mapping gives meta: {}, nothing gives no key), and a
\* static mapping gives one entry per configured name, each function
\* called with the record and the extra projected columns.
C20_MetaEmission ==
    /\ (Finished("single", "GET") /\ resp.status = 200) =>
            MetaAsStated(config(req.route, "meta", Static({})), resp, MetaArgs(req.id))
    /\ (Finished("collection", "GET") /\ resp.status = 200
            /\ ~has_param(req.params, "offset") /\ ~has_param(req.params, "limit")) =>
            /\ "meta" \notin DOMAIN resp
            /\ \A k \in 1..Len(resp.data) :
                   MetaAsStated(config(req.route, "resource_meta", Static({})),
                                resp.data[k], MetaArgs(resp.data[k].id))

\* A dynamic function that returned an empty mapping, for a single GET and
\* for the items of a collection GET.
C20_Witness ==
    /\ pc = "done"
    /\ req.method = "GET"
    /\ resp.status = 200
    /\ config(req.route, "meta", Static({"-"})) = Dynamic({})
    /\ ~has_param(req.params, "without_size")
    /\ IF req.res = "single"
       THEN "meta" \in DOMAIN resp /\ DOMAIN resp.meta = {}
       ELSE /\ resp.data # <<>>
            /\ \A k \in 1..Len(resp.data) :
                   "meta" \in DOMAIN resp.data[k] /\ DOMAIN resp.data[k].meta = {}

\* C21: the data object GET, POST, PUT and PATCH produce for a record has
\* exactly the keys of the route's response field selection (static list or
\* per-request function) that are columns, and all columns when nothing is
\* configured; a selected relationship or computed property is skipped
\* without error.
Selection(r) == response_fields(r).names
Serialized ==
    /\ pc = "done"
    /\ response_fields(req).status = 0
    /\ \/ /\ req.method = "GET" /\ req.res = "single"
          /\ single_get(store, req.route, req.id).status = 200
       \/ /\ req.method = "GET" /\ req.res = "collection"
          /\ collection_get(store, req.route, req.params).data # <<>>
       \/ /\ req.method \in {"POST", "PUT", "PATCH"}
          /\ trace.err = "none"
C21_ResponseFields ==
    Serialized =>
        /\ resp.status \in {200, 201}
        /\ resp.data # <<>>
        /\ \A k \in 1..Len(resp.data) :
              DOMAIN resp.data[k] =
                  {n \in Names(Selection(req)) : AttrKind(n) = "column"}
C21_Witness ==
    /\ Serialized
    /\ req.method = "PATCH"
    /\ Selection(req) = <<"owner", "team">>
    /\ resp.status = 200
    /\ DOMAIN resp.data[1] = {"owner"}

\* C22: a request whose method is not in the route's configured methods
\* (defaults: GET, POST, PATCH for a collection; GET, PUT, PATCH, DELETE for
\* a single resource) ends in 405 at once: no session is opened, no hook is
\* invoked, no query is issued and the table stays as it is.
C22_MethodNotAllowed ==
    [][(pc = "idle" /\ pc' # "idle" /\ req'.method \notin methods(req')) =>
          /\ pc' = "done"
          /\ resp'.status = 405
          /\ trace'.log = <<>>
          /\ trace'.queries = 0
          /\ store' = store]_vars
C22_Witness ==
    /\ Finished("single", "DELETE")
    /\ "methods" \in DOMAIN req.route
    /\ "DELETE" \notin methods(req)
    /\ live(store, req.id)
    /\ resp = NotAllowed

\* C23: a PUT or a single-record PATCH whose body is a JSON array, of any
\* length (0 and 1 included), is rejected with 400 'Array bodies are only
\* allowed with POST requests' and leaves the targeted record unchanged.
ArrayReceived ==
    /\ pc = "done"
    /\ req.res = "single"
    /\ req.method \in {"PUT", "PATCH"}
    /\ is_array(req)
    /\ trace.n1 = "one" \/ (req.method = "PUT" /\ req.route.put_insert)
C23_ArrayRejected ==
    ArrayReceived => (resp = ArrayBody /\ ~trace.wrote)
C23_Witness ==
    /\ ArrayReceived
    /\ Len(req.body) = 2
    /\ resp = ArrayBody
    /\ ~trace.wrote

\* C24: parsing one body object against a model, a key naming a computed
\* property is passed through verbatim; a key naming a column is decoded by
\* the column's type into the flat attributes; a key naming a relationship
\* is captured in the linked attributes (a list for to-many, one object for
\* to-one) only when recursion is allowed and is never among the flat
\* attributes; every other key is dropped without error.
ParsedBody == pc = "done" /\ req.res = "body"
Decodes(model, entry) ==
    KeyKind(model, entry.key) = "column" =>
        decode(ColumnType(model, entry.key), "default", entry.value).status = 0
C24_KeyClassification ==
    ParsedBody =>
        /\ resp.status = 0 <=> \A k \in 1..Len(req.body) : Decodes(req.model, req.body[k])
        /\ resp.status = 0 =>
              /\ Keys(resp.attributes) \cup Keys(resp.linked) \subseteq Keys(req.body)
              /\ \A k \in 1..Len(req.body) :
                    LET key   == req.body[k].key
                        value == req.body[k].value
                        kind  == KeyKind(req.model, key)
                    IN  /\ kind = "property" =>
                              /\ key \in Keys(resp.attributes) \ Keys(resp.linked)
                              /\ resp.attributes[Get(resp.attributes, key)].value = value
                        /\ kind = "column" =>
                              /\ key \in Keys(resp.attributes) \ Keys(resp.linked)
                              /\ resp.attributes[Get(resp.attributes, key)].value
                                    = decode(ColumnType(req.model, key), "default", value).value
                        /\ kind = "relationship" =>
                              /\ key \notin Keys(resp.attributes)
                              /\ key \in Keys(resp.linked) <=> req.allow_recursion
                              /\ req.allow_recursion =>
                                    LET linked == resp.linked[Get(resp.linked, key)].value
                                    IN  /\ linked.many = (key \in {"characters", "employees"})
                                        /\ Len(linked.objects) = Len(value.items)
                                        /\ ~linked.many => Len(linked.objects) = 1
                        /\ kind = "missing" =>
                              key \notin Keys(resp.attributes) \cup Keys(resp.linked)
C24_Witness ==
    /\ ParsedBody
    /\ req.model = "Character"
    /\ req.allow_recursion
    /\ Keys(req.body) = {"name", "indirect_name", "team", "bogus"}
    /\ resp.status = 0
    /\ Keys(resp.attributes) = {"name", "indirect_name"}
    /\ Keys(resp.linked) = {"team"}

\* C25: for a POST, every top-level body element (the single object, or
\* each element of an array body) gets each path-derived column attribute
\* set to the URL's value after the body was parsed: the URL's value
\* replaces a different value the body gives for the same attribute.
Deserialized == pc = "done" /\ req.res = "doc" /\ resp.status = 0
Elements(body_data) ==
    IF body_data.type = "list" THEN body_data.items ELSE <<body_data.items[1]>>
C25_PathAttributes ==
    Deserialized =>
        /\ Len(resp.attributes) = Len(Elements(req.body))
        /\ \A k \in 1..Len(resp.attributes), p \in 1..Len(req.kwargs) :
              /\ req.kwargs[p].key \in Keys(resp.attributes[k])
              /\ resp.attributes[k][Get(resp.attributes[k], req.kwargs[p].key)].value
                    = req.kwargs[p].value
C25_Witness ==
    /\ Deserialized
    /\ req.body.type = "list"
    /\ Len(req.body.items) = 2
    /\ req.kwargs = <<Entry("team_id", Str(7))>>
    /\ "team_id" \in Keys(req.body.items[1])
    /\ "team_id" \notin Keys(req.body.items[2])
    /\ \A k \in 1..2 :
          resp.attributes[k][Get(resp.attributes[k], "team_id")].value = Str(7)

\* C26: relationship linking is one level deep: a nested relationship
\* payload is parsed with recursion disallowed, so a relationship key inside
\* a nested object is dropped, and a POST creates related records at most
\* one level below the top-level records, and none at all unless the route
\* sets allow_subresources.
Nested(body_data) ==
    LET elements == Elements(body_data)
    IN  {<<k, j>> \in (1..Len(elements)) \X (1..MaxLen) :
            j <= Len(elements[k]) /\ elements[k][j].key = "team"}
C26_OneLevel ==
    Deserialized =>
        LET below == {k \in 1..Len(resp.resources) : resp.resources[k].depth > 0}
        IN  /\ \A k \in 1..Len(resp.resources) :
                  /\ resp.resources[k].depth <= 1
                  /\ \A e \in 1..Len(resp.resources[k].attributes) :
                        resp.resources[k].attributes[e].value.type \notin {"dict", "list"}
            /\ \A k \in below :
                  /\ resp.resources[k].model = "Team"
                  /\ Keys(resp.resources[k].attributes) = {"name"}
            /\ Cardinality(below) =
                  IF config(req.route, "allow_subresources", FALSE)
                  THEN Cardinality(Nested(req.body)) ELSE 0
            /\ Len(resp.resources) = Len(Elements(req.body)) + Cardinality(below)
C26_Witness ==
    /\ Deserialized
    /\ config(req.route, "allow_subresources", FALSE)
    /\ req.body.type = "list"
    /\ \E k \in 1..Len(resp.resources) :
          /\ resp.resources[k].depth = 1
          /\ resp.resources[k].model = "Team"
          /\ Keys(resp.resources[k].attributes) = {"name"}

\* C27: for every attribute type of the field codec (datetime in the
\* default UTC form, date, time, decimal, UUID, pass-through scalars),
\* serializing a stored value and deserializing the result for the same
\* attribute gives back the original value; only naive and ms-epoch
\* datetimes are exempt.  Numbers are compared as Python compares them: a
\* float equals the Decimal it was made from when no rounding took place.
Equal(x, y) ==
    \/ x = y
    \/ /\ x.type \in {"Decimal", "float"} /\ y.type \in {"Decimal", "float"}
       /\ x.v = y.v /\ x.frac = 0 /\ y.frac = 0
RoundTrip == pc = "done" /\ req.res = "value" /\ req.mode = "default"
C27_RoundTrip ==
    RoundTrip => (resp.status = 0 /\ Equal(resp.value, req.value))
C27_Witness ==
    /\ RoundTrip
    /\ req.column_type = "DateTime"
    /\ req.value.type = "datetime"
    /\ resp.wire.form = "%Y-%m-%dT%H:%M:%SZ"
    /\ resp.status = 0
    /\ resp.value = req.value

\* C28: a DELETE on a route without mark_deleted answers 200 only if the
\* record has been removed: whatever another actor commits between the
\* precondition re-query and the delete statement, the request never
\* answers 200 while the record it located is still in the table.
HardDeleted ==
    /\ Finished("single", "DELETE")
    /\ ~req.route.soft
    /\ resp.status = 200
C28_DeletedWhenOk ==
    HardDeleted => ~live(store, loaded.id)
C28_Witness ==
    /\ HardDeleted
    /\ req.route.precond
    /\ trace.raced
    /\ ~live(store, loaded.id)

\* C29: in single-record PATCH and DELETE the query-string filters are
\* applied together with the precondition hook after the record was located
\* by its path arguments: when the located record does not satisfy them,
\* the request ends in 409 'Resource found but conditions violated' (not in
\* 404) and the table stays as it is.
Satisfies(r, tbl, i) ==
    i \in precondition(r.method, r.route, r.body, tbl,
                       filter_by_params(r.params, tbl, {i}).set)
C29_ConditionsViolated ==
    [][(/\ pc = "located"
        /\ pc' # "located"
        /\ req.method \in {"PATCH", "DELETE"}
        /\ first_rejected(req.params) = "none"
        /\ live(store, loaded.id)
        /\ ~Satisfies(req, store, loaded.id)) =>
          /\ pc' = "done"
          /\ resp' = Violated
          /\ store' = store]_vars
C29_Witness ==
    /\ Finished("single", "DELETE")
    /\ req.params # <<>>
    /\ ~req.route.precond
    /\ first_rejected(req.params) = "none"
    /\ trace.n1 = "one"
    /\ live(store, loaded.id)
    /\ ~Satisfies(req, store, loaded.id)
    /\ resp = Violated

\* C30: in the mutating handlers (POST, PUT, single PATCH, DELETE) of a
\* route that defines the hooks, the before_<method> hook runs after the
\* record was resolved (for PATCH and DELETE after the precondition
\* re-query) and before the commit; the after_<method> hook runs only after
\* the commit succeeded and the result was set; a request that ends in an
\* error never invokes its after hook.
HookOf(stage, method) ==
    CASE method = "POST"   -> IF stage = "before" THEN "before_post" ELSE "after_post"
      [] method = "PUT"    -> IF stage = "before" THEN "before_put" ELSE "after_put"
      [] method = "PATCH"  -> IF stage = "before" THEN "before_patch" ELSE "after_patch"
      [] OTHER             -> IF stage = "before" THEN "before_delete" ELSE "after_delete"
Happened(e) == \E k \in 1..Len(trace.log) : trace.log[k] = e
Before(a, b) ==
    \E k \in 1..Len(trace.log), j \in 1..Len(trace.log) :
        k < j /\ trace.log[k] = a /\ trace.log[j] = b
Mutated ==
    /\ pc = "done"
    /\ \/ req.res = "collection" /\ req.method = "POST"
       \/ req.res = "single" /\ req.method \in {"PUT", "PATCH", "DELETE"}
    /\ Hooks \subseteq config(req.route, "hooks", {})
C30_HookOrder ==
    Mutated =>
        LET before == HookOf("before", req.method)
            after  == HookOf("after", req.method)
        IN  /\ Happened("commit") => Before(before, "commit")
            /\ Happened(before) =>
                  /\ req.res = "single" =>
                        (trace.n1 = "one" \/ (req.method = "PUT" /\ req.route.put_insert))
                  /\ req.method \in {"PATCH", "DELETE"} => trace.n2 = "one"
            /\ Happened(after) =>
                  /\ trace.err = "none"
                  /\ Before("commit", "result")
                  /\ Before("result", after)
            /\ resp.status \notin {200, 201} => ~Happened(after)
C30_Witness ==
    /\ Mutated
    /\ req.method = "PATCH"
    /\ trace.log = <<"session", "before_patch", "commit", "result", "after_patch">>
    /\ resp.status = 200

TypeOK ==
    /\ \A i \in Ids : store[i] = NoRow \/ store[i] \in Row
    /\ Unique(store)
    /\ pc \in {"idle", "located", "checked", "done"}
    /\ trace.others \in 0..MaxOthers

====
